---- MODULE Spec2Model ----
(***************************************************************************)
(* Model of the static-assets pipeline.                                    *)
(*                                                                         *)
(* Part 1: manifest generation (scripts/generate-assets.js,                *)
(* generateManifest).  Strings are sequences of one-character strings so   *)
(* that extension stripping, lower-casing, the size regular expression,    *)
(* parseInt and path concatenation are computed as the code computes them. *)
(***************************************************************************)
EXTENDS Integers, Sequences, FiniteSets, TLC

\* ------------------------------------------------------------------------
\* Bounds of the model
\* ------------------------------------------------------------------------
MaxBrands == 2     \* entries returned by readdir(brandsDir)
MaxTypes == 2      \* entries returned by one readdir(brandPath)
MaxFiles == 3      \* names returned by one readdir(typePath)
MaxEntries == 5    \* directory entries returned by all readdir calls of a run
MaxAssets == 2     \* assets of the manifest the catalog client loads
MaxSources == 2    \* source files below one asset type directory
MaxRunBrands == 2  \* entries of config.brands in a run of the pipeline
MaxRunTypes == 1   \* asset types configured for one brand of a run
MaxRunSources == 1 \* source files below one asset type directory of a run
MaxChanges == 3    \* change events the watcher passes to debouncedBuild
MaxValBrands == 1  \* entries of config.brands in a validation run
MaxValTypes == 1   \* asset types configured for one brand of a validation run

\* ------------------------------------------------------------------------
\* Characters and strings
\* ------------------------------------------------------------------------
Range(s) == {s[i] : i \in 1..Len(s)}

Min(a, b) == IF a <= b THEN a ELSE b

LowerAlpha ==
    <<"a","b","c","d","e","f","g","h","i","j","k","l","m",
      "n","o","p","q","r","s","t","u","v","w","x","y","z">>

UpperAlpha ==
    <<"A","B","C","D","E","F","G","H","I","J","K","L","M",
      "N","O","P","Q","R","S","T","U","V","W","X","Y","Z">>

Digits == <<"0","1","2","3","4","5","6","7","8","9">>

IndexOf(s, c) == CHOOSE i \in 1..Len(s) : s[i] = c

\* the characters that occur in names and paths
Chars ==
    Range(LowerAlpha) \cup Range(UpperAlpha) \cup Range(Digits)
        \cup {" ", "-", ".", "/"}

DigitChars == Range(Digits)

IsDigit(c) == c \in DigitChars

DigitValues == [c \in DigitChars |-> IndexOf(Digits, c) - 1]

DigitVal(c) == DigitValues[c]

\* UTF-16 code unit of a character (the order used by Array.prototype.sort())
CharCodes ==
    [c \in Chars |->
        IF c \in Range(Digits) THEN 47 + IndexOf(Digits, c)
        ELSE IF c \in Range(UpperAlpha) THEN 64 + IndexOf(UpperAlpha, c)
        ELSE IF c \in Range(LowerAlpha) THEN 96 + IndexOf(LowerAlpha, c)
        ELSE IF c = " " THEN 32
        ELSE IF c = "-" THEN 45
        ELSE IF c = "." THEN 46
        ELSE 47]

CharCode(c) == CharCodes[c]

\* String.prototype.toLowerCase, one character
LowerChars ==
    [c \in Chars |->
        IF c \in Range(UpperAlpha) THEN LowerAlpha[IndexOf(UpperAlpha, c)] ELSE c]

LowerChar(c) == LowerChars[c]

\* String.prototype.toUpperCase, one character
UpperChars ==
    [c \in Chars |->
        IF c \in Range(LowerAlpha) THEN UpperAlpha[IndexOf(LowerAlpha, c)] ELSE c]

UpperChar(c) == UpperChars[c]

ToLowerCase(s) == [i \in 1..Len(s) |-> LowerChar(s[i])]

\* s.slice(n) with 0-based n
Slice(s, n) == SubSeq(s, n + 1, Len(s))

EndsWith(s, suffix) ==
    /\ Len(suffix) <= Len(s)
    /\ SubSeq(s, Len(s) - Len(suffix) + 1, Len(s)) = suffix

\* default comparison of Array.prototype.sort(): code-unit lexicographic
StrLt(a, b) ==
    \E k \in 1..(Min(Len(a), Len(b)) + 1) :
        /\ \A j \in 1..(k - 1) : a[j] = b[j]
        /\ \/ k = Len(a) + 1 /\ k <= Len(b)
           \/ k <= Len(a) /\ k <= Len(b) /\ CharCode(a[k]) < CharCode(b[k])

\* parseInt(digits, 10) on a run of decimal digits
RECURSIVE ParseInt(_)
ParseInt(ds) ==
    IF ds = <<>> THEN 0
    ELSE 10 * ParseInt(SubSeq(ds, 1, Len(ds) - 1)) + DigitVal(ds[Len(ds)])

\* String(n) for a non-negative integer
RECURSIVE NumToStr(_)
NumToStr(n) ==
    IF n < 10 THEN <<Digits[n + 1]>>
    ELSE NumToStr(n \div 10) \o <<Digits[(n % 10) + 1]>>

\* ------------------------------------------------------------------------
\* path.extname / path.basename (POSIX) on a bare file name
\* ------------------------------------------------------------------------
LastIndexOf(s, c) ==
    IF c \in Range(s)
    THEN CHOOSE i \in 1..Len(s) : s[i] = c /\ \A j \in (i + 1)..Len(s) : s[j] # c
    ELSE 0

ExtName(file) ==
    LET d == LastIndexOf(file, ".")
    IN  IF d <= 1 \/ file = <<".", ".">> THEN <<>> ELSE SubSeq(file, d, Len(file))

\* the suffix is compared case-sensitively
BaseName(file, ext) ==
    IF ext # <<>> /\ Len(ext) <= Len(file)
    THEN IF ext = file THEN <<>>
         ELSE IF EndsWith(file, ext)
              THEN SubSeq(file, 1, Len(file) - Len(ext))
              ELSE file
    ELSE file

\* ------------------------------------------------------------------------
\* Literals of generateManifest
\* ------------------------------------------------------------------------
Null == -1     \* JavaScript null in the size field (parseInt never yields it)

Svg == <<"s","v","g">>
Png == <<"p","n","g">>
Jpg == <<"j","p","g">>
Jpeg == <<"j","p","e","g">>
Webp == <<"w","e","b","p">>
Avif == <<"a","v","i","f">>

\* ['.svg', '.png', '.jpg', '.jpeg', '.webp', '.avif']
RecognizedExtensions ==
    {<<".">> \o Svg, <<".">> \o Png, <<".">> \o Jpg,
     <<".">> \o Jpeg, <<".">> \o Webp, <<".">> \o Avif}

Version == <<"v","1">>

\* `v1/brands/${brandId}/${assetType}/${leaf}`
TreePath(brandId, assetType, leaf) ==
    Version \o <<"/","b","r","a","n","d","s","/">> \o brandId \o <<"/">>
            \o assetType \o <<"/">> \o leaf

\* id.split('-').map(w => w.charAt(0).toUpperCase() + w.slice(1)).join(' ')
TitleCase(id) ==
    [i \in 1..Len(id) |->
        IF id[i] = "-" THEN " "
        ELSE IF i = 1 \/ id[i - 1] = "-" THEN UpperChar(id[i])
        ELSE id[i]]

\* baseName.match(/^(.+?)-(\d+)$/): <<>> when there is no match, otherwise
\* <<group 1, group 2>> for the shortest group 1 that lets the rest match
SizeMatch(baseName) ==
    LET n == Len(baseName)
        ks == {k \in 1..(n - 2) :
                 /\ baseName[k + 1] = "-"
                 /\ \A j \in (k + 2)..n : IsDigit(baseName[j])}
    IN  IF ks = {} THEN <<>>
        ELSE LET k == CHOOSE x \in ks : \A y \in ks : x <= y
             IN  <<SubSeq(baseName, 1, k), SubSeq(baseName, k + 2, n)>>

\* the extension test of the file loop
ExtOf(file) == ToLowerCase(ExtName(file))

IsRecognized(file) == ExtOf(file) \in RecognizedExtensions

\* the parse of one recognized file name
ParseFileName(file) ==
    LET ext == ExtOf(file)
        baseName == BaseName(file, ext)
        sizeMatch == SizeMatch(baseName)
    IN  [assetName |-> IF sizeMatch # <<>> THEN sizeMatch[1] ELSE baseName,
         size |-> IF sizeMatch # <<>> THEN ParseInt(sizeMatch[2]) ELSE Null,
         format |-> Slice(ext, 1)]

\* Set.prototype.add on an insertion-ordered set
SetAdd(s, x) == IF x \in Range(s) THEN s ELSE Append(s, x)

\* `if (size)`: null and 0 are both falsy
Truthy(size) == size # Null /\ size # 0

\* variant: the new group starts with an empty tag list
NewGroupEmptyTags(brandId, assetType, assetName) ==
    [id |-> assetName,
     name |-> TitleCase(assetName),
     type |-> assetType,
     basePath |-> TreePath(brandId, assetType, assetName),
     tags |-> <<>>,
     sizes |-> <<>>,
     formats |-> <<>>,
     files |-> <<>>]

NewGroup(brandId, assetType, assetName) ==
    [id |-> assetName,
     name |-> TitleCase(assetName),
     type |-> assetType,
     basePath |-> TreePath(brandId, assetType, assetName),
     sizes |-> <<>>,
     formats |-> <<>>,
     files |-> <<>>]

\* variant: the stored path is normalised to lower case
FileRecordLowerPath(brandId, assetType, file, format, size) ==
    [file |-> file,
     format |-> format,
     size |-> size,
     path |-> TreePath(brandId, assetType, ToLowerCase(file))]

FileRecord(brandId, assetType, file, format, size) ==
    [file |-> file,
     format |-> format,
     size |-> size,
     path |-> TreePath(brandId, assetType, file)]

HasGroup(groups, assetName) == \E i \in 1..Len(groups) : groups[i].id = assetName

\* one iteration of the file loop for a recognized file; the object
\* assetGroups is the sequence of its values in key-insertion order
AddFile(groups, brandId, assetType, file) ==
    LET p == ParseFileName(file)
        withGroup == IF HasGroup(groups, p.assetName) THEN groups
                     ELSE Append(groups, NewGroup(brandId, assetType, p.assetName))
    IN  [i \in 1..Len(withGroup) |->
            IF withGroup[i].id # p.assetName THEN withGroup[i]
            ELSE [withGroup[i] EXCEPT
                    !.formats = SetAdd(@, p.format),
                    !.sizes = IF Truthy(p.size) THEN SetAdd(@, p.size) ELSE @,
                    !.files = Append(@, FileRecord(brandId, assetType, file,
                                                   p.format, p.size))]]

\* the whole file loop over one directory listing
RECURSIVE GroupFiles(_, _, _)
GroupFiles(files, brandId, assetType) ==
    IF files = <<>> THEN <<>>
    ELSE LET rest == GroupFiles(SubSeq(files, 1, Len(files) - 1), brandId, assetType)
             file == files[Len(files)]
         IN  IF IsRecognized(file) THEN AddFile(rest, brandId, assetType, file)
             ELSE rest

\* variant: the size set is emitted in insertion order, without the sort
SortSizesInsertionOrder(sizes) == sizes

\* Array.from(set).sort((a, b) => a - b)
SortSizes(sizes) ==
    [i \in 1..Len(sizes) |->
        CHOOSE x \in Range(sizes) :
            Cardinality({y \in Range(sizes) : y < x}) = i - 1]

\* Array.from(set).sort()
SortFormats(formats) ==
    [i \in 1..Len(formats) |->
        CHOOSE x \in Range(formats) :
            Cardinality({y \in Range(formats) : StrLt(y, x)}) = i - 1]

\* an own property key that is an array index ("7", not "07"); keys of ten
\* or more digits do not occur in the names of the model
IsArrayIndex(key) ==
    /\ key # <<>>
    /\ \A i \in 1..Len(key) : IsDigit(key[i])
    /\ Len(key) = 1 \/ key[1] # "0"
    /\ Len(key) <= 9

\* Object.values(assetGroups): array-index keys in ascending numeric order,
\* then the other keys in insertion order
ObjectValues(groups) ==
    LET ints == SelectSeq(groups, LAMBDA g : IsArrayIndex(g.id))
        strs == SelectSeq(groups, LAMBDA g : ~IsArrayIndex(g.id))
        vals == {ParseInt(ints[i].id) : i \in 1..Len(ints)}
        sortedInts ==
            [i \in 1..Len(ints) |->
                CHOOSE g \in Range(ints) :
                    Cardinality({v \in vals : v < ParseInt(g.id)}) = i - 1]
    IN  sortedInts \o strs

\* { ...group, sizes: sorted, formats: sorted }
ConvertGroup(group) ==
    [group EXCEPT !.sizes = SortSizes(@), !.formats = SortFormats(@)]

ConvertGroups(groups) ==
    LET values == ObjectValues(groups)
    IN  [i \in 1..Len(values) |-> ConvertGroup(values[i])]

\* variant: the type group is pushed without the length test
PushTypeGroupAlways(assetTypes, assetType, assets) ==
    Append(assetTypes, [type |-> assetType, assets |-> assets])

\* if (assets.length > 0) brand.assetTypes.push({ type, assets })
PushTypeGroup(assetTypes, assetType, assets) ==
    IF Len(assets) > 0
    THEN Append(assetTypes, [type |-> assetType, assets |-> assets])
    ELSE assetTypes

NewBrand(brandId) ==
    [id |-> brandId, name |-> TitleCase(brandId), assetTypes |-> <<>>]

\* if (brand.assetTypes.length > 0) manifest.brands.push(brand)
PushBrand(brands, brand) ==
    IF Len(brand.assetTypes) > 0 THEN Append(brands, brand) ELSE brands

\* ------------------------------------------------------------------------
\* The environment: directory entries that readdir can return
\* ------------------------------------------------------------------------
Acme == <<"a","c","m","e">>
Rey == <<"r","e","y">>
Logos == <<"l","o","g","o","s">>
Icons == <<"i","c","o","n","s">>
Images == <<"i","m","a","g","e","s">>

\* entries of assets/v1/brands: brand directories and a stray file
BrandEntries ==
    {[name |-> Acme, isDirectory |-> TRUE],
     [name |-> Rey, isDirectory |-> TRUE],
     [name |-> <<"x">>, isDirectory |-> FALSE]}

\* entries of a brand directory: type directories and a stray file
TypeEntries ==
    {[name |-> Logos, isDirectory |-> TRUE],
     [name |-> Icons, isDirectory |-> TRUE],
     [name |-> Images, isDirectory |-> TRUE],
     [name |-> <<"x">>, isDirectory |-> FALSE]}

\* names found in a type directory
FileNames ==
    {<<"a",".","s","v","g">>,
     <<"a","-","3","2",".","p","n","g">>,
     <<"a","-","6","4",".","w","e","b","p">>,
     <<"a","-","0","3","2",".","p","n","g">>,
     <<"7","-","0",".","p","n","g">>,
     <<"a","-","3","2",".","P","N","G">>,
     <<"b","-","2","-","1","6",".","j","p","e","g">>,
     <<"a",".","t","x","t">>}

\* a directory listing: distinct entries in the order the OS returns them
Listings(S, n) ==
    {l \in UNION {[1..k -> S] : k \in 0..n} :
        \A i, j \in 1..Len(l) : i # j => l[i] # l[j]}

\* _source/brands/<brand>/meta.json, the part under "assets": the starter
\* document of the scaffolding CLI for one brand, no document for the other
MetaDocs ==
    [b \in {Acme, Rey} |->
        IF b = Acme
        THEN {[type |-> Logos, id |-> <<"a">>, displayName |-> "Primary Logo",
               tags |-> <<"primary">>, aliases |-> <<"logo">>, sortKey |-> 10],
              [type |-> Icons, id |-> <<"7">>, displayName |-> "App Icon",
               tags |-> <<"icon">>, aliases |-> <<"favicon">>, sortKey |-> 10]}
        ELSE {}]

\* ------------------------------------------------------------------------
\* generateManifest as a state machine
\* ------------------------------------------------------------------------
VARIABLES
    pc,             \* position in generateManifest
    manifest,       \* the manifest object being built (version and brands)
    brandDirs,      \* result of readdir(brandsDir)
    bi,             \* index of the brand loop
    brand,          \* the brand object of the current iteration
    assetTypeDirs,  \* result of readdir(brandPath)
    ti,             \* index of the type loop
    files,          \* result of readdir(typePath)
    fi,             \* index of the file loop
    assetGroups,    \* the grouping object of the current type directory
    written,        \* content of assets-manifest.json, <<>> before the write
    metaDocs,       \* the brands' meta.json documents in the source tree
    entriesRead     \* number of directory entries read so far

genVars == <<pc, manifest, brandDirs, bi, brand, assetTypeDirs, ti, files, fi,
             assetGroups, written, metaDocs, entriesRead>>

\* ------------------------------------------------------------------------
\* The catalog client (app/main.js): module state and the DOM elements the
\* handlers read and write
\* ------------------------------------------------------------------------
VARIABLES
    loadState,        \* "loading", then "ok" or "failed": outcome of init()
    loadedManifest,   \* `manifest` of main.js: the parsed assets-manifest.json
    fuse,             \* the search index over allAssets, or none (null)
    allAssets,        \* the flattened assets
    filteredAssets,   \* the result list; it holds references to the objects
                      \* of allAssets, here their positions in allAssets
    selectedBrands,   \* Set of brand ids of the active brand chips
    selectedTypes,    \* Set of asset types of the active type chips
    searchInput,      \* value of the #searchInput element
    searchTimer,      \* the debounce timer of the input listener is armed
    query,            \* `query` of the last run of filterAndRender
    baseAssets,       \* the list the last run of filterAndRender started
                      \* from: the search hits or a copy of allAssets
    assetGrid,        \* the #assetGrid element: hidden flag and cards
    currentAsset,     \* the asset shown in the modal (its position in
                      \* allAssets), NoAsset for null
    modalFormat,      \* the #modalFormat select: options and value
    modalSize,        \* the #modalSize select: options and value
    modalGithubUrl,   \* value of the #modalGithubUrl input
    modalJsdelivrUrl, \* value of the #modalJsdelivrUrl input
    modalImage        \* src of the #modalImage element

clientVars == <<loadState, loadedManifest, fuse, allAssets, filteredAssets,
                selectedBrands, selectedTypes, searchInput, searchTimer,
                query, baseAssets, assetGrid, currentAsset, modalFormat, modalSize,
                modalGithubUrl, modalJsdelivrUrl, modalImage>>

\* ------------------------------------------------------------------------
\* The conversion of one asset type directory (scripts/generate-assets.js,
\* processBrand, processSvg, processRasterImage)
\* ------------------------------------------------------------------------
VARIABLES
    cpc,            \* position in processBrand / processRasterImage
    sourceDir,      \* the files below assetSourceDir, as getFiles meets them
    assetConfig,    \* the configuration of the asset type
    svgFiles,       \* result of getFiles(assetSourceDir, ['.svg'])
    rasterFiles,    \* result of getFiles(assetSourceDir, raster extensions)
    phase,          \* "svg" or "raster": the loop that is running
    si,             \* index of the svg loop
    ri,             \* index of the raster loop
    tasks,          \* `tasks` of processRasterImage: output path and state
    batchStart,     \* `i` of the batch loop
    writes          \* the writes started so far: path, kind and source

convVars == <<cpc, sourceDir, assetConfig, svgFiles, rasterFiles, phase, si, ri,
              tasks, batchStart, writes>>

\* ------------------------------------------------------------------------
\* One run of the pipeline (scripts/generate-assets.js, main)
\* ------------------------------------------------------------------------
VARIABLES
    rpc,            \* position in main
    brandFilter,    \* index of the brand named after --brand, 0 for null
    brandCount,     \* number of entries of config.brands
    rbi,            \* index of the loop over config.brands
    typeCount,      \* number of entries of the brandConfig being processed
    rti,            \* index of the loop over the entries of brandConfig
    thrown,         \* what made main reject, "none" while it has not
    manifestWrites, \* writes of assets-manifest.json by this run
    exitStatus      \* exit status of the process, Null while it runs

runVars == <<rpc, brandFilter, brandCount, rbi, typeCount, rti, thrown,
             manifestWrites, exitStatus>>

\* ------------------------------------------------------------------------
\* Watch mode (scripts/watch.js)
\* ------------------------------------------------------------------------
VARIABLES
    watching,       \* the watch process is alive
    debounceTimer,  \* TRUE while the timeout of debouncedBuild is armed
    isBuilding,     \* `isBuilding`
    children,       \* build child processes that run
    failedSpawns,   \* spawns that have failed so far
    changes,        \* calls of debouncedBuild so far
    unbuilt,        \* a change was detected and no build was started since
    watchLog        \* the last message of runBuild, of the handlers of its
                    \* child or of debouncedBuild

watchVars == <<watching, debounceTimer, isBuilding, children, failedSpawns,
               changes, unbuilt, watchLog>>

\* ------------------------------------------------------------------------
\* The validation run (the asset validation script, main)
\* ------------------------------------------------------------------------
VARIABLES
    vpc,            \* position in main and validateBrandDirectory
    vBrands,        \* number of entries of config.brands
    vbi,            \* index of the loop over config.brands
    vTypes,         \* number of configured asset types of the brand
    vti,            \* index of the loop over configuredTypes
    vFiles,         \* result of readdir(typeDir)
    vfi,            \* index of the loop over files
    issues,         \* `issues`: errors and warnings
    printed,        \* what the run has printed of the issues
    vThrown,        \* main has rejected
    vExit           \* exit status of the process, Null while it runs

valVars == <<vpc, vBrands, vbi, vTypes, vti, vFiles, vfi, issues, printed, vThrown,
             vExit>>

\* the variables of the three scripts above
scriptVars == <<runVars, watchVars, valVars>>

vars == <<genVars, clientVars, convVars, scriptVars>>

\* main of generate-assets.js has not started
RunStart ==
    /\ rpc = "idle"
    /\ brandFilter = 0
    /\ brandCount = 0
    /\ rbi = 1
    /\ typeCount = 0
    /\ rti = 1
    /\ thrown = "none"
    /\ manifestWrites = 0
    /\ exitStatus = Null

\* watch.js is not running
WatchStart ==
    /\ watching = FALSE
    /\ debounceTimer = FALSE
    /\ isBuilding = FALSE
    /\ children = 0
    /\ failedSpawns = 0
    /\ changes = 0
    /\ unbuilt = FALSE
    /\ watchLog = [type |-> "none", file |-> <<>>]

NoIssues == [errors |-> <<>>, warnings |-> <<>>]

\* the validation has not started
ValStart ==
    /\ vpc = "idle"
    /\ vBrands = 0
    /\ vbi = 1
    /\ vTypes = 0
    /\ vti = 1
    /\ vFiles = <<>>
    /\ vfi = 1
    /\ issues = NoIssues
    /\ printed = NoIssues
    /\ vThrown = FALSE
    /\ vExit = Null

ScriptStart == RunStart /\ WatchStart /\ ValStart

\* processBrand is not running
ConvStart ==
    /\ cpc = "idle"
    /\ sourceDir = <<>>
    /\ assetConfig = [generateRetina |-> FALSE]
    /\ svgFiles = <<>>
    /\ rasterFiles = <<>>
    /\ phase = "svg"
    /\ si = 1
    /\ ri = 1
    /\ tasks = <<>>
    /\ batchStart = 0
    /\ writes = <<>>

NoManifest == [version |-> <<>>, brands |-> <<>>]

NoFuse == [built |-> FALSE]

NoAsset == 0

NoSelect == [options |-> <<>>, value |-> <<>>]

NoUrl == [base |-> "", path |-> <<>>]

NoGrid == [hidden |-> FALSE, cards |-> <<>>]

\* the page before init() has run
ClientStart ==
    /\ loadState = "loading"
    /\ loadedManifest = NoManifest
    /\ fuse = NoFuse
    /\ allAssets = <<>>
    /\ filteredAssets = <<>>
    /\ selectedBrands = {}
    /\ selectedTypes = {}
    /\ searchInput = <<>>
    /\ searchTimer = FALSE
    /\ query = <<>>
    /\ baseAssets = <<>>
    /\ assetGrid = NoGrid
    /\ currentAsset = NoAsset
    /\ modalFormat = NoSelect
    /\ modalSize = NoSelect
    /\ modalGithubUrl = NoUrl
    /\ modalJsdelivrUrl = NoUrl
    /\ modalImage = NoUrl

NoBrand == [id |-> <<>>, name |-> <<>>, assetTypes |-> <<>>]

\* generateManifest has not started
GenStart ==
    /\ pc = "start"
    /\ manifest = [version |-> Version, brands |-> <<>>]
    /\ brandDirs = <<>>
    /\ bi = 1
    /\ brand = NoBrand
    /\ assetTypeDirs = <<>>
    /\ ti = 1
    /\ files = <<>>
    /\ fi = 1
    /\ assetGroups = <<>>
    /\ written = <<>>
    /\ metaDocs = MetaDocs
    /\ entriesRead = 0

Init ==
    /\ GenStart
    /\ ClientStart
    /\ ConvStart
    /\ ScriptStart

\* const brandDirs = await fs.readdir(brandsDir, { withFileTypes: true })
ScanBrandsDir ==
    /\ pc = "start"
    /\ \E l \in Listings(BrandEntries, Min(MaxBrands, MaxEntries)) : brandDirs' = l
    /\ entriesRead' = Len(brandDirs')
    /\ bi' = 1
    /\ pc' = "brands"
    /\ UNCHANGED clientVars
    /\ UNCHANGED convVars
    /\ UNCHANGED scriptVars
    /\ UNCHANGED <<manifest, brand, assetTypeDirs, ti, files, fi, assetGroups,
                   written, metaDocs>>

\* if (!brandEntry.isDirectory()) continue
SkipBrandEntry ==
    /\ pc = "brands"
    /\ bi <= Len(brandDirs)
    /\ ~brandDirs[bi].isDirectory
    /\ bi' = bi + 1
    /\ UNCHANGED clientVars
    /\ UNCHANGED convVars
    /\ UNCHANGED scriptVars
    /\ UNCHANGED <<pc, manifest, brandDirs, brand, assetTypeDirs, ti, files, fi,
                   assetGroups, written, metaDocs, entriesRead>>

\* a brand directory: create the brand object and list its entries
EnterBrand ==
    /\ pc = "brands"
    /\ bi <= Len(brandDirs)
    /\ brandDirs[bi].isDirectory
    /\ brand' = NewBrand(brandDirs[bi].name)
    /\ \E l \in Listings(TypeEntries, Min(MaxTypes, MaxEntries - entriesRead)) :
          assetTypeDirs' = l
    /\ entriesRead' = entriesRead + Len(assetTypeDirs')
    /\ ti' = 1
    /\ pc' = "types"
    /\ UNCHANGED clientVars
    /\ UNCHANGED convVars
    /\ UNCHANGED scriptVars
    /\ UNCHANGED <<manifest, brandDirs, bi, files, fi, assetGroups, written,
                   metaDocs>>

\* if (!typeEntry.isDirectory()) continue
SkipTypeEntry ==
    /\ pc = "types"
    /\ ti <= Len(assetTypeDirs)
    /\ ~assetTypeDirs[ti].isDirectory
    /\ ti' = ti + 1
    /\ UNCHANGED clientVars
    /\ UNCHANGED convVars
    /\ UNCHANGED scriptVars
    /\ UNCHANGED <<pc, manifest, brandDirs, bi, brand, assetTypeDirs, files, fi,
                   assetGroups, written, metaDocs, entriesRead>>

\* a type directory: list its files and start with an empty grouping object
EnterType ==
    /\ pc = "types"
    /\ ti <= Len(assetTypeDirs)
    /\ assetTypeDirs[ti].isDirectory
    /\ \E l \in Listings(FileNames, Min(MaxFiles, MaxEntries - entriesRead)) :
          files' = l
    /\ entriesRead' = entriesRead + Len(files')
    /\ assetGroups' = <<>>
    /\ fi' = 1
    /\ pc' = "files"
    /\ UNCHANGED clientVars
    /\ UNCHANGED convVars
    /\ UNCHANGED scriptVars
    /\ UNCHANGED <<manifest, brandDirs, bi, brand, assetTypeDirs, ti, written,
                   metaDocs>>

\* a file whose extension is not in the list: continue
SkipFile ==
    /\ pc = "files"
    /\ fi <= Len(files)
    /\ ~IsRecognized(files[fi])
    /\ fi' = fi + 1
    /\ UNCHANGED clientVars
    /\ UNCHANGED convVars
    /\ UNCHANGED scriptVars
    /\ UNCHANGED <<pc, manifest, brandDirs, bi, brand, assetTypeDirs, ti, files,
                   assetGroups, written, metaDocs, entriesRead>>

\* a recognized file: parse it and add it to its group
ProcessFile ==
    /\ pc = "files"
    /\ fi <= Len(files)
    /\ IsRecognized(files[fi])
    /\ assetGroups' = AddFile(assetGroups, brand.id, assetTypeDirs[ti].name,
                              files[fi])
    /\ fi' = fi + 1
    /\ UNCHANGED clientVars
    /\ UNCHANGED convVars
    /\ UNCHANGED scriptVars
    /\ UNCHANGED <<pc, manifest, brandDirs, bi, brand, assetTypeDirs, ti, files,
                   written, metaDocs, entriesRead>>

\* after the file loop: convert the sets and push the type group
EmitTypeGroup ==
    /\ pc = "files"
    /\ fi > Len(files)
    /\ brand' = [brand EXCEPT !.assetTypes =
                    PushTypeGroup(@, assetTypeDirs[ti].name,
                                  ConvertGroups(assetGroups))]
    /\ ti' = ti + 1
    /\ pc' = "types"
    /\ UNCHANGED clientVars
    /\ UNCHANGED convVars
    /\ UNCHANGED scriptVars
    /\ UNCHANGED <<manifest, brandDirs, bi, assetTypeDirs, files, fi,
                   assetGroups, written, metaDocs, entriesRead>>

\* after the type loop: push the brand
EmitBrand ==
    /\ pc = "types"
    /\ ti > Len(assetTypeDirs)
    /\ manifest' = [manifest EXCEPT !.brands = PushBrand(@, brand)]
    /\ bi' = bi + 1
    /\ pc' = "brands"
    /\ UNCHANGED clientVars
    /\ UNCHANGED convVars
    /\ UNCHANGED scriptVars
    /\ UNCHANGED <<brandDirs, brand, assetTypeDirs, ti, files, fi, assetGroups,
                   written, metaDocs, entriesRead>>

\* after the brand loop: fs.writeFile(manifestPath, JSON.stringify(manifest))
WriteManifest ==
    /\ pc = "brands"
    /\ bi > Len(brandDirs)
    /\ written' = <<manifest>>
    /\ pc' = "done"
    /\ UNCHANGED clientVars
    /\ UNCHANGED convVars
    /\ UNCHANGED scriptVars
    /\ UNCHANGED <<manifest, brandDirs, bi, brand, assetTypeDirs, ti, files, fi,
                   assetGroups, metaDocs, entriesRead>>

Next ==
    \/ ScanBrandsDir
    \/ SkipBrandEntry
    \/ EnterBrand
    \/ SkipTypeEntry
    \/ EnterType
    \/ SkipFile
    \/ ProcessFile
    \/ EmitTypeGroup
    \/ EmitBrand
    \/ WriteManifest

Spec == Init /\ [][Next]_vars

\* ------------------------------------------------------------------------
\* The grouping step on its own: generateManifest has just listed one type
\* directory of one brand (any listing of up to MaxFiles names) and runs the
\* file loop and the conversion on it
\* ------------------------------------------------------------------------
InitGroup ==
    /\ pc = "files"
    /\ manifest = [version |-> Version, brands |-> <<>>]
    /\ \E b \in {e \in BrandEntries : e.isDirectory} :
          /\ brandDirs = <<b>>
          /\ brand = NewBrand(b.name)
    /\ bi = 1
    /\ \E t \in {e \in TypeEntries : e.isDirectory} : assetTypeDirs = <<t>>
    /\ ti = 1
    /\ files \in Listings(FileNames, MaxFiles)
    /\ fi = 1
    /\ assetGroups = <<>>
    /\ written = <<>>
    /\ metaDocs = MetaDocs
    /\ entriesRead = 2 + Len(files)
    /\ ClientStart
    /\ ConvStart
    /\ ScriptStart

NextGroup ==
    \/ SkipFile
    \/ ProcessFile
    \/ EmitTypeGroup

SpecGroup == InitGroup /\ [][NextGroup]_vars

\* ------------------------------------------------------------------------
\* What generateManifest has emitted so far
\* ------------------------------------------------------------------------
EmittedBrands == Range(manifest.brands) \cup {brand}

EmittedGroups == UNION {Range(b.assetTypes) : b \in EmittedBrands}

EmittedAssets == UNION {Range(g.assets) : g \in EmittedGroups}

\* the file loop of the current type directory has finished
LoopDone == pc = "files" /\ fi > Len(files)

\* the size suffix a (size, format) pair stands for: "-<size>" or nothing
SizeSuffix(size) == IF size # Null THEN <<"-">> \o NumToStr(size) ELSE <<>>

\* ------------------------------------------------------------------------
\* C1
\* ------------------------------------------------------------------------
ClaimedExt(file) == SubSeq(file, LastIndexOf(file, "."), Len(file))

ClaimedBase(file) == SubSeq(file, 1, LastIndexOf(file, ".") - 1)

ClaimedHyphen(base) ==
    {h \in 1..(Len(base) - 1) :
        base[h] = "-" /\ \A j \in (h + 1)..Len(base) : IsDigit(base[j])}

\* C1: every recognized file name, whatever the letter case of its
\* extension, is parsed into format = lower-cased extension without the dot,
\* and, with the base name being the file name without the extension:
\* size = value of the trailing "-<digits>" run and id = what precedes that
\* hyphen, or size = null and id = base name when there is no such run.
C1_ParseAsSpecified ==
    \A a \in EmittedAssets : \A r \in Range(a.files) :
        LET base == ClaimedBase(r.file)
            hs == ClaimedHyphen(base)
        IN  /\ r.format = Slice(ToLowerCase(ClaimedExt(r.file)), 1)
            /\ IF hs # {}
               THEN LET h == CHOOSE x \in hs : TRUE
                    IN  /\ r.size = ParseInt(SubSeq(base, h + 1, Len(base)))
                        /\ a.id = SubSeq(base, 1, h - 1)
               ELSE r.size = Null /\ a.id = base

\* ------------------------------------------------------------------------
\* C2
\* ------------------------------------------------------------------------
\* C2: in every emitted asset, sizes is strictly ascending and holds exactly
\* the non-null sizes of the asset's file records; formats is alphabetically
\* sorted without duplicates and holds exactly the formats of its records.
C2_SizesAndFormatsExact ==
    \A a \in EmittedAssets :
        /\ \A i, j \in 1..Len(a.sizes) : i < j => a.sizes[i] < a.sizes[j]
        /\ Range(a.sizes) = {r.size : r \in {x \in Range(a.files) : x.size # Null}}
        /\ \A i, j \in 1..Len(a.formats) : i < j => StrLt(a.formats[i], a.formats[j])
        /\ Range(a.formats) = {r.format : r \in Range(a.files)}

\* ------------------------------------------------------------------------
\* C3
\* ------------------------------------------------------------------------
RecognizedIdx == {i \in 1..Len(files) : IsRecognized(files[i])}

\* the last position of the listing whose name parses as position i does
LastSame(i) ==
    CHOOSE j \in RecognizedIdx :
        /\ ParseFileName(files[j]) = ParseFileName(files[i])
        /\ \A k \in RecognizedIdx :
              ParseFileName(files[k]) = ParseFileName(files[i]) => k <= j

\* C3: no two file records of an emitted asset share a (format, size) pair;
\* of the file names of one directory that parse to the same (asset id,
\* format, size) exactly one record is kept, that of the name listed last.
C3_UniqueFormatSize ==
    /\ \A a \in EmittedAssets : \A i, j \in 1..Len(a.files) :
          i # j => <<a.files[i].format, a.files[i].size>>
                     # <<a.files[j].format, a.files[j].size>>
    /\ LoopDone =>
          \A i \in RecognizedIdx : \A g \in Range(assetGroups) :
              LET p == ParseFileName(files[i])
              IN  g.id = p.assetName =>
                    {r.file : r \in {x \in Range(g.files) :
                                        x.format = p.format /\ x.size = p.size}}
                      = {files[LastSame(i)]}

\* ------------------------------------------------------------------------
\* C4
\* ------------------------------------------------------------------------
\* an asset with its file list taken as a set of records
AssetView(a) ==
    [id |-> a.id, name |-> a.name, basePath |-> a.basePath, sizes |-> a.sizes,
     formats |-> a.formats, files |-> Range(a.files)]

AssetViews(assets) == {AssetView(assets[i]) : i \in 1..Len(assets)}

PermutationsOf(l) ==
    {[i \in 1..Len(l) |-> l[p[i]]] : p \in Permutations(1..Len(l))}

\* C4: grouping is order-independent: every permutation of the directory
\* listing yields the same set of assets (same id, name, basePath, sizes,
\* formats, and file lists equal as sets of records) as the listing itself.
C4_GroupingOrderIndependent ==
    LoopDone =>
        LET emitted == AssetViews(ConvertGroups(assetGroups))
        IN  \A l \in PermutationsOf(files) :
                AssetViews(ConvertGroups(GroupFiles(l, brand.id,
                                                    assetTypeDirs[ti].name)))
                  = emitted

\* a listing whose order matters to the accumulation: an asset with two
\* sizes inserted in descending order and at least three files
C4_Witness ==
    /\ LoopDone
    /\ \E g \in Range(assetGroups) :
          /\ Len(g.files) >= 3
          /\ Len(g.sizes) >= 2
          /\ g.sizes[1] > g.sizes[2]
          /\ Len(g.formats) >= 2

\* ------------------------------------------------------------------------
\* C5
\* ------------------------------------------------------------------------
DerivedPath(a, r) == a.basePath \o SizeSuffix(r.size) \o <<".">> \o r.format

DirPrefix(a) == SubSeq(a.basePath, 1, Len(a.basePath) - Len(a.id))

FiveFormats == {Svg, Png, Webp, Avif, Jpg}

\* C6: every file record and every entry of every asset's formats has one
\* of the formats svg, png, webp, avif, jpg, and every record comes from a
\* file whose extension is one of these five.
C6_FormatsAreTheFive ==
    \A a \in EmittedAssets :
        /\ \A r \in Range(a.files) :
              /\ r.format \in FiveFormats
              /\ Slice(ToLowerCase(ClaimedExt(r.file)), 1) \in FiveFormats
        /\ \A f \in Range(a.formats) : f \in FiveFormats

\* ------------------------------------------------------------------------
\* C7
\* ------------------------------------------------------------------------
\* the type directory whose group, if any, was emitted last
JustScanned ==
    /\ pc = "types"
    /\ ti > 1
    /\ assetTypeDirs[ti - 1].isDirectory

\* C7: no emitted type group has zero assets, and a type directory without
\* any file of a recognized extension leaves no entry in brand.assetTypes.
C7_NoEmptyTypeGroup ==
    /\ \A g \in EmittedGroups : Len(g.assets) > 0
    /\ (JustScanned /\ RecognizedIdx = {}) =>
          \A g \in Range(brand.assetTypes) : g.type # assetTypeDirs[ti - 1].name

\* a type directory holding only an unrecognized file has been scanned, after
\* a type directory of the same brand that did produce a group
C7_Witness ==
    /\ JustScanned
    /\ files # <<>>
    /\ RecognizedIdx = {}
    /\ brand.assetTypes # <<>>

\* ------------------------------------------------------------------------
\* C8
\* ------------------------------------------------------------------------
CanonicalTypes == <<Logos, Icons, Images>>

\* C8: in every emitted brand the types of the type groups are among logos,
\* icons, images and appear in that order.
C8_CanonicalTypeOrder ==
    \A b \in EmittedBrands :
        /\ \A i \in 1..Len(b.assetTypes) : b.assetTypes[i].type \in Range(CanonicalTypes)
        /\ \A i, j \in 1..Len(b.assetTypes) :
              i < j => IndexOf(CanonicalTypes, b.assetTypes[i].type)
                         < IndexOf(CanonicalTypes, b.assetTypes[j].type)

\* ------------------------------------------------------------------------
\* C9
\* ------------------------------------------------------------------------
\* C9: within every emitted type group the assets are in ascending id order
\* (so the sequence does not depend on the order of the directory listing).
C9_AssetsSortedById ==
    \A g \in EmittedGroups :
        \A i, j \in 1..Len(g.assets) :
            i < j => StrLt(g.assets[i].id, g.assets[j].id)

\* ------------------------------------------------------------------------
\* C10
\* ------------------------------------------------------------------------
Carries(a, field, value) == field \in DOMAIN a /\ a[field] = value

\* C10: an asset of the written manifest for whose (assetType, assetId) the
\* brand's metadata document has an entry carries the entry's displayName,
\* tags, aliases and sortKey.
C10_MetadataMerged ==
    \A i \in 1..Len(written) : \A b \in Range(written[i].brands) :
        \A g \in Range(b.assetTypes) : \A a \in Range(g.assets) :
            \A m \in metaDocs[b.id] :
                (m.type = g.type /\ m.id = a.id) =>
                    /\ Carries(a, "displayName", m.displayName)
                    /\ Carries(a, "tags", m.tags)
                    /\ Carries(a, "aliases", m.aliases)
                    /\ Carries(a, "sortKey", m.sortKey)

\* ------------------------------------------------------------------------
\* C11
\* ------------------------------------------------------------------------
\* asset.displayName || asset.name: the title the catalog shows for an asset
Title(a) ==
    IF "displayName" \in DOMAIN a /\ a.displayName # <<>>
    THEN a.displayName
    ELSE a.name

WrittenBrands == UNION {Range(written[i].brands) : i \in 1..Len(written)}

\* <<brand, type group, asset>> of the written manifest for which the brand's
\* metadata document has no entry
WithoutEntry ==
    {t \in UNION {UNION {{<<b, g, a>> : a \in Range(g.assets)} :
                          g \in Range(b.assetTypes)} : b \in WrittenBrands} :
        \A m \in metaDocs[t[1].id] : ~(m.type = t[2].type /\ m.id = t[3].id)}

MetadataFields ==
    {"displayName", "tags", "description", "usage", "aliases", "sortKey"}

\* C11 (as stated): an asset without a metadata entry is written with
\* displayName equal to its filename-derived name and without tags,
\* description, usage, aliases and sortKey.
C11_DisplayNameDefaulted ==
    \A t \in WithoutEntry :
        /\ Carries(t[3], "displayName", t[3].name)
        /\ (MetadataFields \ {"displayName"}) \cap DOMAIN t[3] = {}

\* C11 (amended): an asset without a metadata entry is written without any
\* of displayName, tags, description, usage, aliases, sortKey; its name is the
\* title-cased id, and that name is the title the catalog shows for it.
C11_MetadataFieldsAbsent ==
    \A t \in WithoutEntry :
        /\ MetadataFields \cap DOMAIN t[3] = {}
        /\ t[3].name = TitleCase(t[3].id)
        /\ Title(t[3]) = t[3].name

\* a written manifest holding an asset without a metadata entry next to an
\* asset of the same brand that has one
C11_Witness ==
    /\ WithoutEntry # {}
    /\ \E t \in WithoutEntry :
          \E g \in Range(t[1].assetTypes) : \E a \in Range(g.assets) :
              \E m \in metaDocs[t[1].id] : m.type = g.type /\ m.id = a.id

\* ------------------------------------------------------------------------
\* The catalog client: the pure parts of app/main.js
\* ------------------------------------------------------------------------
Reverse(s) == [i \in 1..Len(s) |-> s[Len(s) + 1 - i]]

RECURSIVE TrimStart(_)
TrimStart(s) == IF s # <<>> /\ Head(s) = " " THEN TrimStart(Tail(s)) ELSE s

\* String.prototype.trim; a space is the only white space of the model
Trim(s) == Reverse(TrimStart(Reverse(TrimStart(s))))

\* primary collation weights of the characters: white space, punctuation,
\* digits, then letters without regard to case
PrimaryWeights ==
    [c \in Chars |->
        CASE c = " " -> 1
          [] c = "-" -> 2
          [] c = "/" -> 3
          [] c = "." -> 4
          [] c \in DigitChars -> 5 + DigitVal(c)
          [] c \in Range(LowerAlpha) -> 15 + IndexOf(LowerAlpha, c)
          [] OTHER -> 15 + IndexOf(UpperAlpha, c)]

\* -1, 0 or 1: lexicographic comparison of two sequences of numbers
CompareSeq(x, y) ==
    LET n == Min(Len(x), Len(y))
        d == {i \in 1..n : x[i] # y[i]}
    IN  IF d = {}
        THEN (IF Len(x) < Len(y) THEN -1 ELSE IF Len(x) > Len(y) THEN 1 ELSE 0)
        ELSE LET i == CHOOSE k \in d : \A l \in d : k <= l
             IN  IF x[i] < y[i] THEN -1 ELSE 1

\* String.prototype.localeCompare: by primary weights; strings that differ
\* in letter case only are ordered lower case first
LocaleCompare(a, b) ==
    LET primary == CompareSeq([i \in 1..Len(a) |-> PrimaryWeights[a[i]]],
                              [i \in 1..Len(b) |-> PrimaryWeights[b[i]]])
    IN  IF a = b THEN 0
        ELSE IF primary # 0 THEN primary
        ELSE CompareSeq([i \in 1..Len(a) |-> IF a[i] = LowerChar(a[i]) THEN 0 ELSE 1],
                        [i \in 1..Len(b) |-> IF b[i] = LowerChar(b[i]) THEN 0 ELSE 1])

\* the value that stands in for a missing sortKey
MissingSortKey == 9999

\* typeof a.sortKey === 'number' ? a.sortKey : 9999
SortKeyOf(a) == IF "sortKey" \in DOMAIN a THEN a.sortKey ELSE MissingSortKey

\* a.displayName || a.name || a.id
SortName(a) ==
    IF "displayName" \in DOMAIN a /\ a.displayName # <<>> THEN a.displayName
    ELSE IF a.name # <<>> THEN a.name
    ELSE a.id

\* the comparator of filterAndRender
CompareAssets(a, b) ==
    LET brandCmp == LocaleCompare(a.brandName, b.brandName)
        typeCmp == LocaleCompare(a.assetType, b.assetType)
    IN  IF brandCmp # 0 THEN brandCmp
        ELSE IF typeCmp # 0 THEN typeCmp
        ELSE IF SortKeyOf(a) # SortKeyOf(b) THEN SortKeyOf(a) - SortKeyOf(b)
        ELSE LocaleCompare(SortName(a), SortName(b))

\* filteredAssets.sort(...) on a list of references into assets:
\* Array.prototype.sort is stable, so elements that compare equal keep
\* their order
SortAssets(assets, list) ==
    LET n == Len(list)
        Before(i, j) ==
            LET c == CompareAssets(assets[list[i]], assets[list[j]])
            IN  c < 0 \/ (c = 0 /\ i < j)
        rank == [i \in 1..n |-> 1 + Cardinality({j \in 1..n : Before(j, i)})]
    IN  IF n <= 1 THEN list
        ELSE [k \in 1..n |-> list[CHOOSE i \in 1..n : rank[i] = k]]

\* variant: the type chips are not applied
FilterByChipsBrandsOnly(assets, list, brands, types) ==
    IF brands # {}
    THEN SelectSeq(list, LAMBDA i : assets[i].brandId \in brands)
    ELSE list

\* the two chip filters of filterAndRender, each applied when its set is
\* not empty
FilterByChips(assets, list, brands, types) ==
    LET byBrand == IF brands # {}
                   THEN SelectSeq(list, LAMBDA i : assets[i].brandId \in brands)
                   ELSE list
    IN  IF types # {}
        THEN SelectSeq(byBrand, LAMBDA i : assets[i].assetType \in types)
        ELSE byBrand

\* concatenation of a sequence of sequences
RECURSIVE Concat(_)
Concat(ss) == IF ss = <<>> THEN <<>> ELSE Head(ss) \o Concat(Tail(ss))

\* { ...asset, brandId: brand.id, brandName: brand.name, assetType: type }
FlatAsset(b, g, a) ==
    [brandId |-> b.id, brandName |-> b.name, assetType |-> g.type] @@ a

\* the three nested loops of init() that fill allAssets
Flatten(m) ==
    Concat([i \in 1..Len(m.brands) |->
        Concat([j \in 1..Len(m.brands[i].assetTypes) |->
            [k \in 1..Len(m.brands[i].assetTypes[j].assets) |->
                FlatAsset(m.brands[i], m.brands[i].assetTypes[j],
                          m.brands[i].assetTypes[j].assets[k])]])])

\* BASE_URLS: a URL is the base named here followed by the path
Github == "https://codefuturist.github.io/static-assets/"

Jsdelivr == "https://cdn.jsdelivr.net/gh/codefuturist/static-assets@main/site/"

\* BASE_URLS[cdn] + file.path
Url(base, path) == [base |-> base, path |-> path]

\* the result of a find that matches nothing
NoFile == [file |-> <<>>, format |-> <<>>, size |-> Null, path |-> <<>>]

\* Array.prototype.find: the first element of the list among those that
\* satisfy the test
Find(list, passing) ==
    LET m == {i \in 1..Len(list) : list[i] \in passing}
    IN  IF m = {} THEN NoFile ELSE list[CHOOSE i \in m : \A j \in m : i <= j]

\* the preview size looked for among the png files of a card
CardPngSize == 128

\* previewFile of createAssetCard
CardPreviewFile(asset) ==
    LET all == Range(asset.files)
        svg == Find(asset.files, {f \in all : f.format = Svg})
        png128 == Find(asset.files,
                       {f \in all : f.format = Png /\ f.size = CardPngSize})
        png == Find(asset.files, {f \in all : f.format = Png})
    IN  IF svg # NoFile THEN svg
        ELSE IF png128 # NoFile THEN png128
        ELSE IF png # NoFile THEN png
        ELSE asset.files[1]

\* one card of the grid: the arguments of its onclick handler and the src
\* of its image
CreateAssetCard(asset) ==
    [brandId |-> asset.brandId, assetType |-> asset.assetType, id |-> asset.id,
     src |-> Url(Github, CardPreviewFile(asset).path)]

\* renderAssets: an empty result hides the grid and leaves its cards
RenderAssets(grid, assets, list) ==
    IF list = <<>>
    THEN [grid EXCEPT !.hidden = TRUE]
    ELSE [hidden |-> FALSE,
          cards |-> [i \in 1..Len(list) |-> CreateAssetCard(assets[list[i]])]]

Original == <<"o","r","i","g","i","n","a","l">>

\* `${s || 'original'}`: the value of one option of the size select
SizeOption(s) == IF s = Null \/ s = 0 THEN Original ELSE NumToStr(s)

\* a select whose innerHTML has just been set shows its first option
SelectOf(options) ==
    [options |-> options,
     value |-> IF options = <<>> THEN <<>> ELSE options[1]]

\* sizeVal === 'original' ? null : parseInt(sizeVal, 10)
SelectedSize(sizeVal) == IF sizeVal = Original THEN Null ELSE ParseInt(sizeVal)

\* variant: the first lookup does not test the size
ExactFileAnySize(asset, format, size) ==
    Find(asset.files, {f \in Range(asset.files) : f.format = format})

\* files.find(f => f.format === format && f.size === size)
ExactFile(asset, format, size) ==
    Find(asset.files,
         {f \in Range(asset.files) : f.format = format /\ f.size = size})

\* variant: the fallback is the file of the format that has the least size
FallbackFileSmallest(asset, format) ==
    Find(asset.files,
         {f \in Range(asset.files) :
             /\ f.format = format
             /\ \A g \in Range(asset.files) :
                   g.format = format => f.size <= g.size})

\* files.find(f => f.format === format)
FallbackFile(asset, format) ==
    Find(asset.files, {f \in Range(asset.files) : f.format = format})

\* the file updateModalUrls writes to the outputs, NoFile when it writes none
ResolvedFile(asset, format, sizeVal) ==
    LET file == ExactFile(asset, format, SelectedSize(sizeVal))
    IN  IF file # NoFile THEN file ELSE FallbackFile(asset, format)

\* ------------------------------------------------------------------------
\* The manifests the client loads
\* ------------------------------------------------------------------------
\* the name of a generated file: id, size suffix, extension
FileNamed(id, size, format) == id \o SizeSuffix(size) \o <<".">> \o format

\* the asset generateManifest emits for a listing that holds one asset
GeneratedAsset(brandId, assetType, listing) ==
    ConvertGroups(GroupFiles(listing, brandId, assetType))[1]

\* the asset with the fields of its metadata entry
WithMetadata(asset, entry) == entry @@ asset

\* assets of two brands and two types, in the order the generator lists
\* them: with and without sortKey and displayName, two with the same display
\* name, vector only and raster only, files listed in an order other than
\* by size, two files of one format and size, and one asset whose formats
\* list names a format that none of its files has
AssetPool ==
    <<[brandId |-> Acme, assetType |-> Logos,
       asset |-> GeneratedAsset(Acme, Logos,
           <<FileNamed(<<"b">>, 64, Png), FileNamed(<<"b">>, Null, Png),
             FileNamed(<<"b">>, 128, Webp)>>)],
      [brandId |-> Acme, assetType |-> Logos,
       asset |-> WithMetadata(
           GeneratedAsset(Acme, Logos,
               <<FileNamed(<<"a">>, Null, Svg), FileNamed(<<"a">>, 64, Png),
                 FileNamed(<<"a">>, 32, Png), FileNamed(<<"a">>, 64, Avif)>>),
           [sortKey |-> 10, displayName |-> <<"M","a","r","k">>])],
      [brandId |-> Acme, assetType |-> Logos,
       asset |-> WithMetadata(
           GeneratedAsset(Acme, Logos, <<FileNamed(<<"c">>, Null, Svg)>>),
           [sortKey |-> 10000])],
      [brandId |-> Acme, assetType |-> Logos,
       asset |-> WithMetadata(
           [GeneratedAsset(Acme, Logos, <<FileNamed(<<"d">>, 32, Png)>>)
               EXCEPT !.formats = <<Avif, Png>>],
           [displayName |-> <<"B">>])],
      [brandId |-> Rey, assetType |-> Icons,
       asset |-> GeneratedAsset(Rey, Icons,
           <<FileNamed(<<"a">>, 32, Webp), FileNamed(<<"a">>, 32, Png),
             <<"a","-","0","3","2",".","p","n","g">>>>)]>>

\* the elements of a sequence at the positions in S, in their order
RECURSIVE Pick(_, _)
Pick(s, S) ==
    IF s = <<>> THEN <<>>
    ELSE Pick(SubSeq(s, 1, Len(s) - 1), S) \o
         (IF Len(s) \in S THEN <<s[Len(s)]>> ELSE <<>>)

\* the distinct elements of a sequence in the order of their first occurrence
RECURSIVE Uniq(_)
Uniq(s) ==
    IF s = <<>> THEN <<>>
    ELSE SetAdd(Uniq(SubSeq(s, 1, Len(s) - 1)), s[Len(s)])

\* the manifest that holds the given assets in the given order: brands and
\* type groups in the order of their first asset
ManifestOf(entries) ==
    LET brandIds == Uniq([i \in 1..Len(entries) |-> entries[i].brandId])
        OfBrand(b) == SelectSeq(entries, LAMBDA e : e.brandId = b)
        TypesOf(b) == Uniq([i \in 1..Len(OfBrand(b)) |-> OfBrand(b)[i].assetType])
        AssetsOf(b, t) ==
            LET es == SelectSeq(OfBrand(b), LAMBDA e : e.assetType = t)
            IN  [i \in 1..Len(es) |-> es[i].asset]
    IN  [version |-> Version,
         brands |-> [i \in 1..Len(brandIds) |->
             [NewBrand(brandIds[i]) EXCEPT !.assetTypes =
                 [j \in 1..Len(TypesOf(brandIds[i])) |->
                     [type |-> TypesOf(brandIds[i])[j],
                      assets |-> AssetsOf(brandIds[i], TypesOf(brandIds[i])[j])]]]]]

\* a manifest holds up to MaxAssets assets of the pool
ClientManifests ==
    {ManifestOf(Pick(AssetPool, S)) :
        S \in {T \in SUBSET (1..Len(AssetPool)) : Cardinality(T) <= MaxAssets}}

\* the values typed into the search box
Queries == {<<>>, <<" ">>, <<"l","o">>}

\* [...allAssets]
CopyOf(assets) == [i \in 1..Len(assets) |-> i]

\* fuse.search(query).map(r => r.item): some of the indexed items, in the
\* order of their scores
SearchResults(assets) == Listings(1..Len(assets), Len(assets))

\* the chips setupFilters creates
BrandChips == {loadedManifest.brands[i].id : i \in 1..Len(loadedManifest.brands)}

TypeChips == {allAssets[i].assetType : i \in 1..Len(allAssets)}

\* ------------------------------------------------------------------------
\* The catalog client as a state machine
\* ------------------------------------------------------------------------
loadVars == <<loadState, loadedManifest, fuse, allAssets>>

modalVars == <<currentAsset, modalFormat, modalSize, modalGithubUrl,
               modalJsdelivrUrl, modalImage>>

\* filterAndRender, run on the given assets and index with the given chip
\* sets and input value.  Without an index a non-empty query makes
\* fuse.search throw before anything is assigned.
FilterAndRender(assets, index, brands, types, input) ==
    LET q == Trim(input)
    IN  IF q # <<>> /\ ~index.built
        THEN UNCHANGED <<filteredAssets, query, baseAssets, assetGrid>>
        ELSE \E base \in (IF q # <<>> THEN SearchResults(assets)
                                      ELSE {CopyOf(assets)}) :
                LET result == SortAssets(assets,
                                  FilterByChips(assets, base, brands, types))
                IN  /\ query' = q
                    /\ baseAssets' = base
                    /\ filteredAssets' = result
                    /\ assetGrid' = RenderAssets(assetGrid, assets, result)

\* init(), the manifest is fetched and parsed: flatten, build the index,
\* set up the chips, first render
LoadManifest ==
    /\ loadState = "loading"
    /\ \E m \in ClientManifests :
          /\ loadedManifest' = m
          /\ allAssets' = Flatten(m)
          /\ fuse' = [built |-> TRUE]
          /\ FilterAndRender(Flatten(m), [built |-> TRUE],
                             selectedBrands, selectedTypes, searchInput)
    /\ loadState' = "ok"
    /\ UNCHANGED <<selectedBrands, selectedTypes, searchInput, searchTimer>>
    /\ UNCHANGED modalVars
    /\ UNCHANGED genVars
    /\ UNCHANGED convVars
    /\ UNCHANGED scriptVars

\* init(), the catch branch: the fetch or the parse failed, so that nothing
\* was flattened and no index was built
LoadFail ==
    /\ loadState = "loading"
    /\ loadState' = "failed"
    /\ UNCHANGED <<loadedManifest, allAssets>>
    /\ UNCHANGED <<fuse, filteredAssets, selectedBrands, selectedTypes,
                   searchInput, searchTimer, query, baseAssets, assetGrid>>
    /\ UNCHANGED modalVars
    /\ UNCHANGED genVars
    /\ UNCHANGED convVars
    /\ UNCHANGED scriptVars

\* the user changes the text of the search box; the debounced listener is
\* attached at the end of init()
EditQuery ==
    /\ \E q \in Queries \ {searchInput} : searchInput' = q
    /\ searchTimer' = (loadState # "loading")
    /\ UNCHANGED <<filteredAssets, selectedBrands, selectedTypes, query,
                   baseAssets, assetGrid>>
    /\ UNCHANGED loadVars
    /\ UNCHANGED modalVars
    /\ UNCHANGED genVars
    /\ UNCHANGED convVars
    /\ UNCHANGED scriptVars

\* the debounce timer expires
DebounceFire ==
    /\ searchTimer
    /\ searchTimer' = FALSE
    /\ FilterAndRender(allAssets, fuse, selectedBrands, selectedTypes, searchInput)
    /\ UNCHANGED <<selectedBrands, selectedTypes, searchInput>>
    /\ UNCHANGED loadVars
    /\ UNCHANGED modalVars
    /\ UNCHANGED genVars
    /\ UNCHANGED convVars
    /\ UNCHANGED scriptVars

\* click on a brand chip
ToggleBrand ==
    /\ loadState = "ok"
    /\ \E b \in BrandChips :
          LET set == IF b \in selectedBrands
                     THEN selectedBrands \ {b}
                     ELSE selectedBrands \cup {b}
          IN  /\ selectedBrands' = set
              /\ FilterAndRender(allAssets, fuse, set, selectedTypes, searchInput)
    /\ UNCHANGED <<selectedTypes, searchInput, searchTimer>>
    /\ UNCHANGED loadVars
    /\ UNCHANGED modalVars
    /\ UNCHANGED genVars
    /\ UNCHANGED convVars
    /\ UNCHANGED scriptVars

\* click on a type chip
ToggleType ==
    /\ loadState = "ok"
    /\ \E t \in TypeChips :
          LET set == IF t \in selectedTypes
                     THEN selectedTypes \ {t}
                     ELSE selectedTypes \cup {t}
          IN  /\ selectedTypes' = set
              /\ FilterAndRender(allAssets, fuse, selectedBrands, set, searchInput)
    /\ UNCHANGED <<selectedBrands, searchInput, searchTimer>>
    /\ UNCHANGED loadVars
    /\ UNCHANGED modalVars
    /\ UNCHANGED genVars
    /\ UNCHANGED convVars
    /\ UNCHANGED scriptVars

\* clearAllFilters, the click handler of #clearFiltersBtn
ClearAllFilters ==
    /\ loadState # "loading"
    /\ selectedBrands' = {}
    /\ selectedTypes' = {}
    /\ searchInput' = <<>>
    /\ FilterAndRender(allAssets, fuse, {}, {}, <<>>)
    /\ UNCHANGED searchTimer
    /\ UNCHANGED loadVars
    /\ UNCHANGED modalVars
    /\ UNCHANGED genVars
    /\ UNCHANGED convVars
    /\ UNCHANGED scriptVars

NextBrowse ==
    \/ LoadManifest
    \/ LoadFail
    \/ EditQuery
    \/ DebounceFire
    \/ ToggleBrand
    \/ ToggleType
    \/ ClearAllFilters

SpecBrowse == Init /\ [][NextBrowse]_vars

\* updateModalUrls for the given asset and select values: the outputs are
\* written when a file is found and left as they are otherwise
UpdateModalUrls(asset, format, sizeVal) ==
    LET file == ResolvedFile(asset, format, sizeVal)
    IN  IF file # NoFile
        THEN /\ modalGithubUrl' = Url(Github, file.path)
             /\ modalJsdelivrUrl' = Url(Jsdelivr, file.path)
             /\ modalImage' = Url(Github, file.path)
        ELSE UNCHANGED <<modalGithubUrl, modalJsdelivrUrl, modalImage>>

\* the position in assets of the first asset with the ids of the card, 0
\* when there is none
FindAsset(assets, card) ==
    LET m == {i \in 1..Len(assets) :
                /\ assets[i].brandId = card.brandId
                /\ assets[i].assetType = card.assetType
                /\ assets[i].id = card.id}
    IN  IF m = {} THEN NoAsset ELSE CHOOSE i \in m : \A j \in m : i <= j

\* the options of the size select: the sizes, or the single option
\* 'original' when the asset has none
SizeOptions(asset) ==
    IF Len(asset.sizes) > 0
    THEN [i \in 1..Len(asset.sizes) |-> SizeOption(asset.sizes[i])]
    ELSE <<SizeOption(Null)>>

\* click on a card of the visible grid: openModal
OpenModal ==
    /\ currentAsset = NoAsset
    /\ ~assetGrid.hidden
    /\ \E c \in 1..Len(assetGrid.cards) :
          LET found == FindAsset(allAssets, assetGrid.cards[c])
          IN  /\ currentAsset' = found
              /\ IF found = NoAsset
                 THEN UNCHANGED <<modalFormat, modalSize, modalGithubUrl,
                                  modalJsdelivrUrl, modalImage>>
                 ELSE /\ modalFormat' = SelectOf(allAssets[found].formats)
                      /\ modalSize' = SelectOf(SizeOptions(allAssets[found]))
                      /\ UpdateModalUrls(allAssets[found],
                             SelectOf(allAssets[found].formats).value,
                             SelectOf(SizeOptions(allAssets[found])).value)
    /\ UNCHANGED <<filteredAssets, selectedBrands, selectedTypes, searchInput,
                   searchTimer, query, baseAssets, assetGrid>>
    /\ UNCHANGED loadVars
    /\ UNCHANGED genVars
    /\ UNCHANGED convVars
    /\ UNCHANGED scriptVars

\* change event of #modalFormat
ChangeFormat ==
    /\ currentAsset # NoAsset
    /\ \E f \in Range(modalFormat.options) \ {modalFormat.value} :
          /\ modalFormat' = [modalFormat EXCEPT !.value = f]
          /\ UpdateModalUrls(allAssets[currentAsset], f, modalSize.value)
    /\ UNCHANGED <<currentAsset, modalSize>>
    /\ UNCHANGED <<filteredAssets, selectedBrands, selectedTypes, searchInput,
                   searchTimer, query, baseAssets, assetGrid>>
    /\ UNCHANGED loadVars
    /\ UNCHANGED genVars
    /\ UNCHANGED convVars
    /\ UNCHANGED scriptVars

\* change event of #modalSize
ChangeSize ==
    /\ currentAsset # NoAsset
    /\ \E v \in Range(modalSize.options) \ {modalSize.value} :
          /\ modalSize' = [modalSize EXCEPT !.value = v]
          /\ UpdateModalUrls(allAssets[currentAsset], modalFormat.value, v)
    /\ UNCHANGED <<currentAsset, modalFormat>>
    /\ UNCHANGED <<filteredAssets, selectedBrands, selectedTypes, searchInput,
                   searchTimer, query, baseAssets, assetGrid>>
    /\ UNCHANGED loadVars
    /\ UNCHANGED genVars
    /\ UNCHANGED convVars
    /\ UNCHANGED scriptVars

\* closeModal: the close button or the Escape key
CloseModal ==
    /\ currentAsset # NoAsset
    /\ currentAsset' = NoAsset
    /\ UNCHANGED <<modalFormat, modalSize, modalGithubUrl, modalJsdelivrUrl,
                   modalImage>>
    /\ UNCHANGED <<filteredAssets, selectedBrands, selectedTypes, searchInput,
                   searchTimer, query, baseAssets, assetGrid>>
    /\ UNCHANGED loadVars
    /\ UNCHANGED genVars
    /\ UNCHANGED convVars
    /\ UNCHANGED scriptVars

NextModal ==
    \/ LoadManifest
    \/ OpenModal
    \/ ChangeFormat
    \/ ChangeSize
    \/ CloseModal

SpecModal == Init /\ [][NextModal]_vars

\* ------------------------------------------------------------------------
\* C12
\* ------------------------------------------------------------------------
\* the asset passes the brand chips, and the type chips
PassesBrands(i) == selectedBrands = {} \/ allAssets[i].brandId \in selectedBrands

PassesTypes(i) == selectedTypes = {} \/ allAssets[i].assetType \in selectedTypes

\* C12: after any sequence of chip toggles and query edits the result list
\* holds, once each, exactly the assets of the base list (all assets when
\* the query is empty, the search hits otherwise) whose brand is selected or
\* no brand is selected, and whose type is selected or no type is selected.
C12_FiltersConjunctive ==
    /\ Range(filteredAssets) =
           {i \in Range(baseAssets) : PassesBrands(i) /\ PassesTypes(i)}
    /\ Len(filteredAssets) = Cardinality(Range(filteredAssets))
    /\ Range(baseAssets) \subseteq 1..Len(allAssets)
    /\ (loadState = "ok" /\ query = <<>>) => baseAssets = CopyOf(allAssets)

\* a search with chips of both kinds active: a hit of a selected brand is
\* left out for its type and another hit is kept
C12_Witness ==
    /\ query # <<>>
    /\ selectedBrands # {}
    /\ selectedTypes # {}
    /\ filteredAssets # <<>>
    /\ \E i \in Range(baseAssets) : PassesBrands(i) /\ ~PassesTypes(i)

\* ------------------------------------------------------------------------
\* C13
\* ------------------------------------------------------------------------
HasSortKey(a) == "sortKey" \in DOMAIN a

\* positions of the result list that hold assets of one brand name and type
SameBrandAndType(p, q) ==
    /\ allAssets[filteredAssets[p]].brandName = allAssets[filteredAssets[q]].brandName
    /\ allAssets[filteredAssets[p]].assetType = allAssets[filteredAssets[q]].assetType

\* C13: among the assets of the result list that have the same brand name
\* and type, those with a sortKey come in ascending sortKey order, and every
\* asset without a sortKey comes after every asset with one, whatever the
\* value of that sortKey.
C13_MissingSortKeyLast ==
    \A p, q \in 1..Len(filteredAssets) :
        (p < q /\ SameBrandAndType(p, q)) =>
            LET a == allAssets[filteredAssets[p]]
                b == allAssets[filteredAssets[q]]
            IN  /\ (HasSortKey(a) /\ HasSortKey(b)) => a.sortKey <= b.sortKey
                /\ ~(~HasSortKey(a) /\ HasSortKey(b))

\* ------------------------------------------------------------------------
\* C14
\* ------------------------------------------------------------------------
\* C14: the result list depends only on which assets pass the filters:
\* filtering and sorting any other order of the base list gives the same
\* sequence.
C14_OrderIndependent ==
    \A l \in PermutationsOf(baseAssets) :
        SortAssets(allAssets,
                   FilterByChips(allAssets, l, selectedBrands, selectedTypes))
            = filteredAssets

\* ------------------------------------------------------------------------
\* C15
\* ------------------------------------------------------------------------
ModalOpen == currentAsset # NoAsset

\* the files of the asset in the modal
ShownFiles == allAssets[currentAsset].files

\* positions of the files that have the selected format and the selected
\* size, and of those that have the selected format
ExactMatches ==
    {i \in 1..Len(ShownFiles) :
        /\ ShownFiles[i].format = modalFormat.value
        /\ ShownFiles[i].size = SelectedSize(modalSize.value)}

OfFormat == {i \in 1..Len(ShownFiles) : ShownFiles[i].format = modalFormat.value}

First(S) == CHOOSE i \in S : \A j \in S : i <= j

\* the two URL fields and the preview designate the path
OutputsShow(path) ==
    /\ modalGithubUrl = Url(Github, path)
    /\ modalJsdelivrUrl = Url(Jsdelivr, path)
    /\ modalImage = Url(Github, path)

\* C15: whenever the asset in the modal has a file record with the selected
\* format and the selected size, both CDN URLs and the preview show the path
\* of such a record (the first one in the asset's file list).
C15_ExactMatchFirst ==
    (ModalOpen /\ ExactMatches # {}) =>
        OutputsShow(ShownFiles[First(ExactMatches)].path)

\* an exact match that is not the first file of its format
C15_Witness ==
    /\ ModalOpen
    /\ ExactMatches # {}
    /\ First(ExactMatches) # First(OfFormat)

\* ------------------------------------------------------------------------
\* C16
\* ------------------------------------------------------------------------
\* the file of the selected format the claim prefers: one without a size,
\* otherwise one of the smallest size
PreferredOfFormat ==
    CHOOSE i \in OfFormat :
        \/ ShownFiles[i].size = Null
        \/ /\ \A j \in OfFormat : ShownFiles[j].size # Null
           /\ \A j \in OfFormat : ShownFiles[i].size <= ShownFiles[j].size

\* C16 (as stated): when no file has the selected format and size but files
\* of the format exist, the outputs show the file of that format whose size
\* is null if there is one, and otherwise the one with the smallest size.
C16_NullThenSmallest ==
    (ModalOpen /\ ExactMatches = {} /\ OfFormat # {}) =>
        OutputsShow(ShownFiles[PreferredOfFormat].path)

\* C16 (amended): when no file has the selected format and size but files of
\* the format exist, the outputs show the first file of that format in the
\* asset's file list, whatever its size.
C16_FirstOfFormat ==
    (ModalOpen /\ ExactMatches = {} /\ OfFormat # {}) =>
        OutputsShow(ShownFiles[First(OfFormat)].path)

\* a fallback whose first file of the format is not the preferred one
C16_Witness ==
    /\ ModalOpen
    /\ ExactMatches = {}
    /\ OfFormat # {}
    /\ ShownFiles[First(OfFormat)].size # ShownFiles[PreferredOfFormat].size

\* ------------------------------------------------------------------------
\* C17
\* ------------------------------------------------------------------------
\* the paths of all files of all assets
AllPaths ==
    UNION {{allAssets[i].files[j].path : j \in 1..Len(allAssets[i].files)} :
               i \in 1..Len(allAssets)}

FORMAT_PRIORITY == <<Avif, Webp, Svg, Png, Jpg>>

\* priority.find(f => asset.formats.includes(f)) || 'png'
BestFormat(asset) ==
    LET m == {k \in 1..Len(FORMAT_PRIORITY) :
                FORMAT_PRIORITY[k] \in Range(asset.formats)}
    IN  IF m = {} THEN Png ELSE FORMAT_PRIORITY[First(m)]

\* the format of the file of the asset that a card's image shows
CardFormat(card) ==
    LET fs == allAssets[FindAsset(allAssets, card)].files
    IN  fs[First({j \in 1..Len(fs) : Url(Github, fs[j].path) = card.src})].format

\* C18: the preview of every card shows a file whose format is the first of
\* avif, webp, svg, png, jpg that occurs in the asset's formats, and that
\* format is one of the asset's formats.
C18_PreviewByPriority ==
    \A c \in 1..Len(assetGrid.cards) :
        LET asset == allAssets[FindAsset(allAssets, assetGrid.cards[c])]
        IN  /\ CardFormat(assetGrid.cards[c]) = BestFormat(asset)
            /\ CardFormat(assetGrid.cards[c]) \in Range(asset.formats)

\* ------------------------------------------------------------------------
\* The conversion: the pure parts of processBrand and processRasterImage
\* ------------------------------------------------------------------------
\* const concurrency = 4
Concurrency == 4

\* the last component of a path
LastComponent(p) == SubSeq(p, LastIndexOf(p, "/") + 1, Len(p))

\* getBaseName(filePath)
GetBaseName(filePath) ==
    BaseName(LastComponent(filePath), ExtName(LastComponent(filePath)))

\* path.extname(inputPath).toLowerCase().slice(1)
InputExt(inputPath) == Slice(ToLowerCase(ExtName(LastComponent(inputPath))), 1)

\* getFiles(dir, extensions) over the files below dir
GetFiles(dir, extensions) ==
    SelectSeq(dir, LAMBDA f : ToLowerCase(ExtName(LastComponent(f))) \in extensions)

SvgExtensions == {<<".">> \o Svg}

\* ['.jpg', '.jpeg', '.png', '.gif']
RasterExtensions ==
    {<<".">> \o Jpg, <<".">> \o Jpeg, <<".">> \o Png, <<".",  "g", "i", "f">>}

\* globalConfig.defaults: quality settings only
Defaults == [quality |-> "quality"]

\* assetConfig.sizes || globalConfig.defaults.sizes || []
ConfigSizes(cfg) ==
    IF "sizes" \in DOMAIN cfg THEN cfg.sizes
    ELSE IF "sizes" \in DOMAIN Defaults THEN Defaults.sizes
    ELSE <<>>

\* assetConfig.formats || globalConfig.defaults.formats || ['original']
ConfigFormats(cfg) ==
    IF "formats" \in DOMAIN cfg THEN cfg.formats
    ELSE IF "formats" \in DOMAIN Defaults THEN Defaults.formats
    ELSE <<Original>>

\* sizes.length > 0 ? sizes : [{ name: null, width: metadata.width }]
SizeVariants(cfg, width) ==
    IF Len(ConfigSizes(cfg)) > 0
    THEN ConfigSizes(cfg)
    ELSE <<[name |-> <<>>, width |-> width]>>

\* generateRetina && width * 2 <= metadata.width ? [1, 2] : [1]
RetinaMultipliers(cfg, width, sourceWidth) ==
    IF cfg.generateRetina /\ width * 2 <= sourceWidth THEN <<1, 2>> ELSE <<1>>

\* `${baseName}${sizeSuffix}${retinaSuffix}.${outputFormat}`
OutputName(inputPath, sizeName, multiplier, format) ==
    GetBaseName(inputPath)
        \o (IF sizeName # <<>> THEN <<"-">> \o sizeName ELSE <<>>)
        \o (IF multiplier > 1 THEN <<"@">> \o NumToStr(multiplier) \o <<"x">> ELSE <<>>)
        \o <<".">>
        \o (IF format = Original THEN InputExt(inputPath) ELSE format)

\* the task list of processRasterImage for a source of the given width:
\* sizes that fit, then multipliers, then formats; every output is placed
\* directly in outputDir
MakeTasks(inputPath, cfg, sourceWidth) ==
    LET variants == SelectSeq(SizeVariants(cfg, sourceWidth),
                              LAMBDA v : ~(v.width > sourceWidth))
    IN  Concat([v \in 1..Len(variants) |->
            Concat([m \in 1..Len(RetinaMultipliers(cfg, variants[v].width, sourceWidth)) |->
                [f \in 1..Len(ConfigFormats(cfg)) |->
                    [outputPath |-> OutputName(inputPath, variants[v].name,
                         RetinaMultipliers(cfg, variants[v].width, sourceWidth)[m],
                         ConfigFormats(cfg)[f]),
                     state |-> "created"]]])])

\* tasks.slice(i, i + concurrency): the positions of the batch that starts
\* after position i
Batch(ts, i) == {t \in 1..Len(ts) : i < t /\ t <= i + Concurrency}

\* variant: the loop goes on as soon as the first task of the batch is done
BatchFulfilledFirstOnly(ts, i) == ts[i + 1].state = "fulfilled"

\* Promise.all of the batch is fulfilled: every task of it is
BatchFulfilled(ts, i) == \A t \in Batch(ts, i) : ts[t].state = "fulfilled"

\* Promise.all of the batch is rejected: one task of it is
BatchRejected(ts, i) == \E t \in Batch(ts, i) : ts[t].state = "rejected"

\* ------------------------------------------------------------------------
\* The environment of the conversion
\* ------------------------------------------------------------------------
\* source files below an asset type directory: two that differ in their
\* extension only, one of the same name in a sub-directory, and another one
SourceFiles ==
    {<<"a",".","s","v","g">>,
     <<"a",".","p","n","g">>,
     <<"x","/","a",".","s","v","g">>,
     <<"b",".","j","p","e","g">>}

\* metadata.width of a source
SourceWidths == {48, 128}

\* configurations of an asset type: two named sizes with retina variants,
\* no sizes and no formats, and one size with the source format named twice
AssetConfigs ==
    {[sizes |-> <<[name |-> <<"s">>, width |-> 32], [name |-> <<"m">>, width |-> 64]>>,
      formats |-> <<Original, Webp>>,
      generateRetina |-> TRUE],
     [generateRetina |-> FALSE],
     [sizes |-> <<[name |-> <<"s">>, width |-> 32]>>,
      formats |-> <<Original, Png>>,
      generateRetina |-> FALSE]}

\* ------------------------------------------------------------------------
\* processBrand on one asset type directory as a state machine
\* ------------------------------------------------------------------------
\* processBrand has reached the asset type: its source directory exists
InitConvert ==
    /\ GenStart
    /\ ClientStart
    /\ ScriptStart
    /\ cpc = "start"
    /\ sourceDir \in Listings(SourceFiles, MaxSources)
    /\ assetConfig \in AssetConfigs
    /\ svgFiles = <<>>
    /\ rasterFiles = <<>>
    /\ phase = "svg"
    /\ si = 1
    /\ ri = 1
    /\ tasks = <<>>
    /\ batchStart = 0
    /\ writes = <<>>

\* the source file of the running iteration
CurrentInput == IF phase = "svg" THEN svgFiles[si] ELSE rasterFiles[ri]

\* const svgFiles = await getFiles(assetSourceDir, ['.svg'])
ListSvgs ==
    /\ cpc = "start"
    /\ svgFiles' = GetFiles(sourceDir, SvgExtensions)
    /\ cpc' = "loop"
    /\ UNCHANGED <<sourceDir, assetConfig, rasterFiles, phase, si, ri, tasks,
                   batchStart, writes>>
    /\ UNCHANGED <<genVars, clientVars>>
    /\ UNCHANGED scriptVars

\* processSvg: the optimized SVG is written to assetOutputDir/relativePath
OptimizeSvg ==
    /\ cpc = "loop"
    /\ phase = "svg"
    /\ si <= Len(svgFiles)
    /\ writes' = Append(writes, [path |-> svgFiles[si], kind |-> "svg",
                                 source |-> svgFiles[si]])
    /\ cpc' = "plan"
    /\ UNCHANGED <<sourceDir, assetConfig, svgFiles, rasterFiles, phase, si, ri,
                   tasks, batchStart>>
    /\ UNCHANGED <<genVars, clientVars>>
    /\ UNCHANGED scriptVars

\* after the svg loop: getFiles for the raster extensions
SvgLoopDone ==
    /\ cpc = "loop"
    /\ phase = "svg"
    /\ si > Len(svgFiles)
    /\ rasterFiles' = GetFiles(sourceDir, RasterExtensions)
    /\ phase' = "raster"
    /\ UNCHANGED <<cpc, sourceDir, assetConfig, svgFiles, si, ri, tasks,
                   batchStart, writes>>
    /\ UNCHANGED <<genVars, clientVars>>
    /\ UNCHANGED scriptVars

\* the next iteration of the raster loop
StartRaster ==
    /\ cpc = "loop"
    /\ phase = "raster"
    /\ ri <= Len(rasterFiles)
    /\ cpc' = "plan"
    /\ UNCHANGED <<sourceDir, assetConfig, svgFiles, rasterFiles, phase, si, ri,
                   tasks, batchStart, writes>>
    /\ UNCHANGED <<genVars, clientVars>>
    /\ UNCHANGED scriptVars

\* after the raster loop
RasterLoopDone ==
    /\ cpc = "loop"
    /\ phase = "raster"
    /\ ri > Len(rasterFiles)
    /\ cpc' = "done"
    /\ UNCHANGED <<sourceDir, assetConfig, svgFiles, rasterFiles, phase, si, ri,
                   tasks, batchStart, writes>>
    /\ UNCHANGED <<genVars, clientVars>>
    /\ UNCHANGED scriptVars

\* processRasterImage up to the batch loop: the metadata of the source is
\* read and the task list is built
PlanTasks ==
    /\ cpc = "plan"
    /\ \E w \in SourceWidths : tasks' = MakeTasks(CurrentInput, assetConfig, w)
    /\ batchStart' = 0
    /\ cpc' = "batch"
    /\ UNCHANGED <<sourceDir, assetConfig, svgFiles, rasterFiles, phase, si, ri,
                   writes>>
    /\ UNCHANGED <<genVars, clientVars>>
    /\ UNCHANGED scriptVars

\* tasks.slice(i, i + concurrency).map(fn => fn()): every task of the batch
\* is started
StartBatch ==
    /\ cpc = "batch"
    /\ batchStart < Len(tasks)
    /\ tasks' = [t \in 1..Len(tasks) |->
                    IF t \in Batch(tasks, batchStart)
                    THEN [tasks[t] EXCEPT !.state = "running"]
                    ELSE tasks[t]]
    /\ writes' = writes \o
           [k \in 1..Cardinality(Batch(tasks, batchStart)) |->
               [path |-> tasks[batchStart + k].outputPath, kind |-> "task",
                source |-> CurrentInput]]
    /\ cpc' = "await"
    /\ UNCHANGED <<sourceDir, assetConfig, svgFiles, rasterFiles, phase, si, ri,
                   batchStart>>
    /\ UNCHANGED <<genVars, clientVars>>
    /\ UNCHANGED scriptVars

\* pipeline.toFile of a running task succeeds
TaskFulfil ==
    /\ cpc = "await"
    /\ \E t \in 1..Len(tasks) :
          /\ tasks[t].state = "running"
          /\ tasks' = [tasks EXCEPT ![t].state = "fulfilled"]
    /\ UNCHANGED <<cpc, sourceDir, assetConfig, svgFiles, rasterFiles, phase, si,
                   ri, batchStart, writes>>
    /\ UNCHANGED <<genVars, clientVars>>
    /\ UNCHANGED scriptVars

\* a running task throws
TaskReject ==
    /\ cpc = "await"
    /\ \E t \in 1..Len(tasks) :
          /\ tasks[t].state = "running"
          /\ tasks' = [tasks EXCEPT ![t].state = "rejected"]
    /\ UNCHANGED <<cpc, sourceDir, assetConfig, svgFiles, rasterFiles, phase, si,
                   ri, batchStart, writes>>
    /\ UNCHANGED <<genVars, clientVars>>
    /\ UNCHANGED scriptVars

\* await Promise.all(...) returns: i += concurrency
BatchResolved ==
    /\ cpc = "await"
    /\ BatchFulfilled(tasks, batchStart)
    /\ batchStart' = batchStart + Concurrency
    /\ cpc' = "batch"
    /\ UNCHANGED <<sourceDir, assetConfig, svgFiles, rasterFiles, phase, si, ri,
                   tasks, writes>>
    /\ UNCHANGED <<genVars, clientVars>>
    /\ UNCHANGED scriptVars

\* await Promise.all(...) throws: nothing catches the error before
\* main().catch, which ends the process
BatchThrows ==
    /\ cpc = "await"
    /\ BatchRejected(tasks, batchStart)
    /\ cpc' = "exit"
    /\ UNCHANGED <<sourceDir, assetConfig, svgFiles, rasterFiles, phase, si, ri,
                   tasks, batchStart, writes>>
    /\ UNCHANGED <<genVars, clientVars>>
    /\ UNCHANGED scriptVars

\* the batch loop has ended: processRasterImage returns to its loop
ImageDone ==
    /\ cpc = "batch"
    /\ batchStart >= Len(tasks)
    /\ si' = IF phase = "svg" THEN si + 1 ELSE si
    /\ ri' = IF phase = "raster" THEN ri + 1 ELSE ri
    /\ cpc' = "loop"
    /\ UNCHANGED <<sourceDir, assetConfig, svgFiles, rasterFiles, phase, tasks,
                   batchStart, writes>>
    /\ UNCHANGED <<genVars, clientVars>>
    /\ UNCHANGED scriptVars

NextConvert ==
    \/ ListSvgs
    \/ OptimizeSvg
    \/ SvgLoopDone
    \/ StartRaster
    \/ RasterLoopDone
    \/ PlanTasks
    \/ StartBatch
    \/ TaskFulfil
    \/ TaskReject
    \/ BatchResolved
    \/ BatchThrows
    \/ ImageDone

SpecConvert == InitConvert /\ [][NextConvert]_vars

\* ------------------------------------------------------------------------
\* C19
\* ------------------------------------------------------------------------
Running == {t \in 1..Len(tasks) : tasks[t].state = "running"}

\* the number of the batch a task belongs to
BatchOf(t) == (t - 1) \div Concurrency

\* C19: within one processRasterImage call at most four conversion tasks
\* are in flight, and no task of a later batch has been started before every
\* task of the batches before it has settled.
C19_BoundedParallelism ==
    /\ Cardinality(Running) <= Concurrency
    /\ \A t, u \in 1..Len(tasks) :
          (tasks[t].state # "created" /\ BatchOf(u) < BatchOf(t)) =>
              tasks[u].state \in {"fulfilled", "rejected"}

\* four tasks of a second batch are in flight
C19_Witness ==
    /\ Cardinality(Running) = Concurrency
    /\ \A t \in Running : BatchOf(t) = 1

\* ------------------------------------------------------------------------
\* C20
\* ------------------------------------------------------------------------
\* C20: every write targets its own output path: no two writes started in
\* the asset type directory (conversion tasks and SVG optimizations) have the
\* same output path, whatever the configuration and the source files.
C20_DistinctOutputPaths ==
    \A i, j \in 1..Len(writes) : i # j => writes[i].path # writes[j].path

\* ------------------------------------------------------------------------
\* main of generate-assets.js as a state machine.  processBrand runs the
\* conversion machine above once for every asset type whose source
\* directory exists; generateManifest is two steps, the scan of the output
\* tree and the write of assets-manifest.json.
\* ------------------------------------------------------------------------
InitMain ==
    /\ GenStart
    /\ ClientStart
    /\ ConvStart
    /\ WatchStart
    /\ ValStart
    /\ rpc = "loadConfig"
    /\ brandFilter \in 0..MaxRunBrands
    /\ brandCount = 0
    /\ rbi = 1
    /\ typeCount = 0
    /\ rti = 1
    /\ thrown = "none"
    /\ manifestWrites = 0
    /\ exitStatus = Null

\* the source directories of an asset type met by a run
RunSourceDirs == Listings(SourceFiles, MaxRunSources)

\* const config = await loadConfig()
LoadConfigOk ==
    /\ rpc = "loadConfig"
    /\ brandCount' \in 0..MaxRunBrands
    /\ rpc' = "ensureBrands"
    /\ UNCHANGED <<brandFilter, rbi, typeCount, rti, thrown, manifestWrites,
                   exitStatus>>
    /\ UNCHANGED <<genVars, clientVars, convVars, watchVars, valVars>>

\* variant: a configuration that cannot be read counts as an empty one
LoadConfigThrowsIgnored ==
    /\ rpc = "loadConfig"
    /\ thrown' = "config"
    /\ rpc' = "ensureBrands"
    /\ UNCHANGED <<brandFilter, brandCount, rbi, typeCount, rti, manifestWrites,
                   exitStatus>>
    /\ UNCHANGED <<genVars, clientVars, convVars, watchVars, valVars>>

\* readFile or JSON.parse of loadConfig throws: main rejects
LoadConfigThrows ==
    /\ rpc = "loadConfig"
    /\ thrown' = "config"
    /\ rpc' = "catch"
    /\ UNCHANGED <<brandFilter, brandCount, rbi, typeCount, rti, manifestWrites,
                   exitStatus>>
    /\ UNCHANGED <<genVars, clientVars, convVars, watchVars, valVars>>

\* ensureDir of outputDir/brands, then of outputDir/shared
EnsureDirOk ==
    /\ rpc \in {"ensureBrands", "ensureShared"}
    /\ rpc' = IF rpc = "ensureBrands" THEN "ensureShared" ELSE "brands"
    /\ UNCHANGED <<brandFilter, brandCount, rbi, typeCount, rti, thrown,
                   manifestWrites, exitStatus>>
    /\ UNCHANGED <<genVars, clientVars, convVars, watchVars, valVars>>

\* fs.mkdir of ensureDir throws: main rejects
EnsureDirThrows ==
    /\ rpc \in {"ensureBrands", "ensureShared"}
    /\ thrown' = "mkdir"
    /\ rpc' = "catch"
    /\ UNCHANGED <<brandFilter, brandCount, rbi, typeCount, rti, manifestWrites,
                   exitStatus>>
    /\ UNCHANGED <<genVars, clientVars, convVars, watchVars, valVars>>

\* if (brandFilter && brandName !== brandFilter) continue
SkipFilteredBrand ==
    /\ rpc = "brands"
    /\ rbi <= brandCount
    /\ brandFilter # 0
    /\ rbi # brandFilter
    /\ rbi' = rbi + 1
    /\ UNCHANGED <<rpc, brandFilter, brandCount, typeCount, rti, thrown,
                   manifestWrites, exitStatus>>
    /\ UNCHANGED <<genVars, clientVars, convVars, watchVars, valVars>>

\* await processBrand(brandName, brandConfig, config): the call
CallProcessBrand ==
    /\ rpc = "brands"
    /\ rbi <= brandCount
    /\ brandFilter = 0 \/ rbi = brandFilter
    /\ typeCount' \in 0..MaxRunTypes
    /\ rti' = 1
    /\ rpc' = "processBrand"
    /\ UNCHANGED <<brandFilter, brandCount, rbi, thrown, manifestWrites,
                   exitStatus>>
    /\ UNCHANGED <<genVars, clientVars, convVars, watchVars, valVars>>

\* fs.access(assetSourceDir) throws: the asset type is skipped
NoSourceDirectory ==
    /\ rpc = "processBrand"
    /\ cpc = "idle"
    /\ rti <= typeCount
    /\ rti' = rti + 1
    /\ UNCHANGED <<rpc, brandFilter, brandCount, rbi, typeCount, thrown,
                   manifestWrites, exitStatus>>
    /\ UNCHANGED <<genVars, clientVars, convVars, watchVars, valVars>>

\* the source directory of the asset type exists: its files are converted
EnterAssetType ==
    /\ rpc = "processBrand"
    /\ cpc = "idle"
    /\ rti <= typeCount
    /\ cpc' = "start"
    /\ sourceDir' \in RunSourceDirs
    /\ assetConfig' \in AssetConfigs
    /\ svgFiles' = <<>>
    /\ rasterFiles' = <<>>
    /\ phase' = "svg"
    /\ si' = 1
    /\ ri' = 1
    /\ tasks' = <<>>
    /\ batchStart' = 0
    /\ writes' = <<>>
    /\ UNCHANGED runVars
    /\ UNCHANGED <<genVars, clientVars, watchVars, valVars>>

\* variant: processBrand returns while a batch is still awaited
AssetTypeDoneNoAwait ==
    /\ rpc = "processBrand"
    /\ cpc \in {"done", "await"}
    /\ cpc' = "idle"
    /\ rti' = rti + 1
    /\ UNCHANGED <<rpc, brandFilter, brandCount, rbi, typeCount, thrown,
                   manifestWrites, exitStatus>>
    /\ UNCHANGED <<sourceDir, assetConfig, svgFiles, rasterFiles, phase, si, ri,
                   tasks, batchStart, writes>>
    /\ UNCHANGED <<genVars, clientVars, watchVars, valVars>>

\* both loops over the files of the asset type have ended: the next entry
\* of brandConfig
AssetTypeDone ==
    /\ rpc = "processBrand"
    /\ cpc = "done"
    /\ cpc' = "idle"
    /\ rti' = rti + 1
    /\ UNCHANGED <<rpc, brandFilter, brandCount, rbi, typeCount, thrown,
                   manifestWrites, exitStatus>>
    /\ UNCHANGED <<sourceDir, assetConfig, svgFiles, rasterFiles, phase, si, ri,
                   tasks, batchStart, writes>>
    /\ UNCHANGED <<genVars, clientVars, watchVars, valVars>>

\* ensureDir(outputDir) of processRasterImage throws: nothing between it
\* and main catches the error
OutputDirThrows ==
    /\ rpc = "processBrand"
    /\ cpc = "plan"
    /\ cpc' = "exit"
    /\ thrown' = "mkdir"
    /\ rpc' = "catch"
    /\ UNCHANGED <<brandFilter, brandCount, rbi, typeCount, rti, manifestWrites,
                   exitStatus>>
    /\ UNCHANGED <<sourceDir, assetConfig, svgFiles, rasterFiles, phase, si, ri,
                   tasks, batchStart, writes>>
    /\ UNCHANGED <<genVars, clientVars, watchVars, valVars>>

\* the rejection of a batch leaves processRasterImage, processBrand and the
\* loop of main: main rejects
ConversionThrows ==
    /\ rpc = "processBrand"
    /\ cpc = "exit"
    /\ thrown' = "conversion"
    /\ rpc' = "catch"
    /\ UNCHANGED <<brandFilter, brandCount, rbi, typeCount, rti, manifestWrites,
                   exitStatus>>
    /\ UNCHANGED <<genVars, clientVars, convVars, watchVars, valVars>>

\* processBrand returns: the next entry of config.brands
BrandDone ==
    /\ rpc = "processBrand"
    /\ cpc = "idle"
    /\ rti > typeCount
    /\ rbi' = rbi + 1
    /\ rpc' = "brands"
    /\ UNCHANGED <<brandFilter, brandCount, typeCount, rti, thrown,
                   manifestWrites, exitStatus>>
    /\ UNCHANGED <<genVars, clientVars, convVars, watchVars, valVars>>

\* after the loop over the brands: await generateManifest(config), which
\* starts with readdir(brandsDir)
CallGenerateManifest ==
    /\ rpc = "brands"
    /\ rbi > brandCount
    /\ rpc' = "manifest"
    /\ UNCHANGED <<brandFilter, brandCount, rbi, typeCount, rti, thrown,
                   manifestWrites, exitStatus>>
    /\ UNCHANGED <<genVars, clientVars, convVars, watchVars, valVars>>

\* generateManifest has read the output tree
ScanOutputTree ==
    /\ rpc = "manifest"
    /\ rpc' = "writeManifest"
    /\ UNCHANGED <<brandFilter, brandCount, rbi, typeCount, rti, thrown,
                   manifestWrites, exitStatus>>
    /\ UNCHANGED <<genVars, clientVars, convVars, watchVars, valVars>>

\* a readdir of generateManifest throws: main rejects
ScanThrows ==
    /\ rpc = "manifest"
    /\ thrown' = "scan"
    /\ rpc' = "catch"
    /\ UNCHANGED <<brandFilter, brandCount, rbi, typeCount, rti, manifestWrites,
                   exitStatus>>
    /\ UNCHANGED <<genVars, clientVars, convVars, watchVars, valVars>>

\* fs.writeFile(manifestPath, ...)
WriteManifestFile ==
    /\ rpc = "writeManifest"
    /\ manifestWrites' = manifestWrites + 1
    /\ rpc' = "complete"
    /\ UNCHANGED <<brandFilter, brandCount, rbi, typeCount, rti, thrown,
                   exitStatus>>
    /\ UNCHANGED <<genVars, clientVars, convVars, watchVars, valVars>>

\* main returns: the process ends with status 0
MainReturns ==
    /\ rpc = "complete"
    /\ exitStatus' = 0
    /\ rpc' = "exited"
    /\ UNCHANGED <<brandFilter, brandCount, rbi, typeCount, rti, thrown,
                   manifestWrites>>
    /\ UNCHANGED <<genVars, clientVars, convVars, watchVars, valVars>>

\* main().catch: log(err.message, 'error'); process.exit(1)
MainCatch ==
    /\ rpc = "catch"
    /\ exitStatus' = 1
    /\ rpc' = "exited"
    /\ UNCHANGED <<brandFilter, brandCount, rbi, typeCount, rti, thrown,
                   manifestWrites>>
    /\ UNCHANGED <<genVars, clientVars, convVars, watchVars, valVars>>

NextMain ==
    \/ LoadConfigOk
    \/ LoadConfigThrows
    \/ EnsureDirOk
    \/ EnsureDirThrows
    \/ SkipFilteredBrand
    \/ CallProcessBrand
    \/ NoSourceDirectory
    \/ EnterAssetType
    \/ ListSvgs
    \/ OptimizeSvg
    \/ SvgLoopDone
    \/ StartRaster
    \/ RasterLoopDone
    \/ PlanTasks
    \/ OutputDirThrows
    \/ StartBatch
    \/ TaskFulfil
    \/ TaskReject
    \/ BatchResolved
    \/ BatchThrows
    \/ ImageDone
    \/ AssetTypeDone
    \/ ConversionThrows
    \/ BrandDone
    \/ CallGenerateManifest
    \/ ScanOutputTree
    \/ ScanThrows
    \/ WriteManifestFile
    \/ MainReturns
    \/ MainCatch

SpecMain == InitMain /\ [][NextMain]_vars

\* ------------------------------------------------------------------------
\* C21
\* ------------------------------------------------------------------------
\* a conversion task of the run has failed
TaskFailed == \E t \in 1..Len(tasks) : tasks[t].state = "rejected"

\* C21: a conversion error is not fatal: after a conversion task has
\* failed, main does not reject and the run does not end with a non-zero
\* status.
C21_ConversionErrorNonFatal ==
    TaskFailed => (rpc # "catch" /\ exitStatus # 1)

\* ------------------------------------------------------------------------
\* C22
\* ------------------------------------------------------------------------
\* the configuration could not be read or parsed, or an output directory
\* could not be created
FatalError == thrown \in {"config", "mkdir"}

\* C22: after a fatal error nothing runs but the handler of main().catch,
\* the run ends with a non-zero status, and assets-manifest.json has not
\* been written at any point of the run.
C22_FatalErrorAborts ==
    FatalError =>
        /\ rpc \in {"catch", "exited"}
        /\ rpc = "exited" => exitStatus = 1
        /\ exitStatus \in {Null, 1}
        /\ manifestWrites = 0

\* a run has ended after an output directory could not be created for a
\* configuration that names brands
C22_Witness ==
    /\ thrown = "mkdir"
    /\ brandCount > 0
    /\ exitStatus = 1

\* ------------------------------------------------------------------------
\* C25
\* ------------------------------------------------------------------------
\* generateManifest has been called
ManifestPhase == rpc \in {"manifest", "writeManifest", "complete"}

\* C25: while generateManifest runs, and after it, no conversion task of
\* the run is in flight and processBrand is not running, so that no write
\* of the pipeline happens after the scan has begun.
C25_PipelineThenAssembly ==
    (ManifestPhase \/ manifestWrites > 0) =>
        /\ Running = {}
        /\ cpc = "idle"
        /\ \A t \in 1..Len(tasks) : tasks[t].state = "fulfilled"

\* the scan of the output tree begins after the two batches of an image
C25_Witness ==
    /\ rpc = "manifest"
    /\ Len(tasks) > Concurrency
    /\ Len(writes) > Concurrency

\* ------------------------------------------------------------------------
\* C27
\* ------------------------------------------------------------------------
\* the writes whose file generateManifest meets in the listing of the asset
\* type directory and recognizes
ListedWrites ==
    {k \in 1..Len(writes) :
        /\ writes[k].path = LastComponent(writes[k].path)
        /\ IsRecognized(writes[k].path)}

\* the id of the asset generateManifest files a written file under
AssetIdOf(k) == ParseFileName(writes[k].path).assetName

\* C27: every file the pipeline has generated from a source is grouped by
\* generateManifest under the asset whose id is the base name of the source,
\* and files generated from sources with different base names are not
\* grouped into the same asset.
C27_GroupedBySource ==
    /\ \A k \in ListedWrites : AssetIdOf(k) = GetBaseName(writes[k].source)
    /\ \A k, l \in ListedWrites :
          AssetIdOf(k) = AssetIdOf(l) =>
              GetBaseName(writes[k].source) = GetBaseName(writes[l].source)

\* ------------------------------------------------------------------------
\* Watch mode (scripts/watch.js) as a state machine
\* ------------------------------------------------------------------------
Json == <<"j","s","o","n">>

Gif == <<"g","i","f">>

\* VALID_EXTENSIONS
VALID_EXTENSIONS ==
    {<<".">> \o e : e \in {Svg, Png, Jpg, Jpeg, Webp, Json}}

\* file names fs.watch reports below _source; <<>> stands for a missing
\* file name
WatchedNames ==
    {<<>>,
     <<"a",".","s","v","g">>,
     <<"a",".","P","N","G">>,
     <<"a",".","g","i","f">>,
     <<"n","o","t","e","s">>}

\* the second of WATCH_PATHS
ConfigFile == <<"a","s","s","e","t","s",".","c","o","n","f","i","g",".">> \o Json

\* a message of log that names no file
Message(type) == [type |-> type, file |-> <<>>]

\* the listener of watchDirectory passes the event to debouncedBuild
PassesWatchFilter(filename) ==
    /\ filename # <<>>
    /\ ToLowerCase(ExtName(filename)) \in VALID_EXTENSIONS

\* isBuilding = true; const build = spawn(...): the child runs, or it could
\* not be spawned.  The 'error' and the 'close' event of a child that could
\* not be spawned are emitted on the next tick, before any timer or watcher
\* event, so that their handlers are part of the step.
Spawn ==
    \/ /\ children' = children + 1
       /\ isBuilding' = TRUE
       /\ watchLog' = Message("building")
       /\ UNCHANGED failedSpawns
    \/ /\ failedSpawns' = failedSpawns + 1
       /\ isBuilding' = FALSE
       /\ watchLog' = Message("failed")
       /\ UNCHANGED children

\* variant: runBuild without the test of isBuilding
RunBuildUnguarded ==
    /\ Spawn
    /\ unbuilt' = FALSE

\* runBuild
RunBuild ==
    IF isBuilding
    THEN /\ watchLog' = Message("skipping")
         /\ UNCHANGED <<isBuilding, children, failedSpawns, unbuilt>>
    ELSE /\ Spawn
         /\ unbuilt' = FALSE

\* debouncedBuild: the timeout is cleared and armed again
DebouncedBuild(changedFile) ==
    /\ debounceTimer' = TRUE
    /\ changes' = changes + 1
    /\ unbuilt' = TRUE
    /\ watchLog' = [type |-> "changed", file |-> changedFile]
    /\ UNCHANGED <<watching, isBuilding, children, failedSpawns>>

\* the script has run to its end: the initial runBuild() has spawned a
\* child and the watchers are installed
InitWatch ==
    /\ GenStart
    /\ ClientStart
    /\ ConvStart
    /\ RunStart
    /\ ValStart
    /\ watching = TRUE
    /\ debounceTimer = FALSE
    /\ children \in {0, 1}
    /\ failedSpawns = 1 - children
    /\ isBuilding = (children = 1)
    /\ changes = 0
    /\ unbuilt = FALSE
    /\ watchLog = Message(IF children = 1 THEN "building" ELSE "failed")

\* an event of the watcher of _source
SourceChange ==
    /\ watching
    /\ changes < MaxChanges
    /\ \E filename \in WatchedNames :
          IF PassesWatchFilter(filename)
          THEN DebouncedBuild(filename)
          ELSE UNCHANGED watchVars
    /\ UNCHANGED <<genVars, clientVars, convVars, runVars, valVars>>

\* an event of the watcher of assets.config.json
ConfigChange ==
    /\ watching
    /\ changes < MaxChanges
    /\ DebouncedBuild(ConfigFile)
    /\ UNCHANGED <<genVars, clientVars, convVars, runVars, valVars>>

\* the timeout of debouncedBuild expires: runBuild
TimerFires ==
    /\ watching
    /\ debounceTimer
    /\ debounceTimer' = FALSE
    /\ RunBuild
    /\ UNCHANGED <<watching, changes>>
    /\ UNCHANGED <<genVars, clientVars, convVars, runVars, valVars>>

\* build.on('close'): the child has ended with some exit code
ChildClose ==
    /\ watching
    /\ children > 0
    /\ children' = children - 1
    /\ isBuilding' = FALSE
    /\ \E code \in {0, 1} :
          watchLog' = Message(IF code = 0 THEN "completed" ELSE "failed")
    /\ UNCHANGED <<watching, debounceTimer, failedSpawns, changes, unbuilt>>
    /\ UNCHANGED <<genVars, clientVars, convVars, runVars, valVars>>

\* process.on('SIGINT'): process.exit(0)
Sigint ==
    /\ watching
    /\ watching' = FALSE
    /\ UNCHANGED <<debounceTimer, isBuilding, children, failedSpawns, changes,
                   unbuilt, watchLog>>
    /\ UNCHANGED <<genVars, clientVars, convVars, runVars, valVars>>

NextWatch ==
    \/ SourceChange
    \/ ConfigChange
    \/ TimerFires
    \/ ChildClose
    \/ Sigint

SpecWatch == InitWatch /\ [][NextWatch]_vars

\* the timeout expires and every build ends
FairWatch ==
    /\ WF_vars(TimerFires)
    /\ WF_vars(ChildClose)

SpecWatchFair == SpecWatch /\ FairWatch

\* ------------------------------------------------------------------------
\* C23
\* ------------------------------------------------------------------------
\* C23: every change passed to debouncedBuild is eventually followed by a
\* build started after it, as long as watch mode is not stopped.
C23_ChangeLeadsToBuild == unbuilt ~> (~unbuilt \/ ~watching)

\* ------------------------------------------------------------------------
\* C28
\* ------------------------------------------------------------------------
\* C28: at most one build child exists at any time: runBuild spawns no
\* child while an earlier one has not closed.
C28_OneBuildAtATime ==
    /\ children <= 1
    /\ children = 1 => isBuilding

\* the timeout has expired while a build was running, and runBuild has
\* returned without a spawn
C28_Witness ==
    /\ watchLog = Message("skipping")
    /\ children = 1
    /\ isBuilding

\* ------------------------------------------------------------------------
\* The validation run: the pure parts
\* ------------------------------------------------------------------------
\* VALIDATION_RULES.validExtensions
ValidExtensions == {<<".">> \o e : e \in {Svg, Png, Jpg, Jpeg, Webp}}

\* VALIDATION_RULES.namingPattern: /^[a-z][a-z0-9]*(-[a-z0-9]+)*$/
NamingPattern(basename) ==
    /\ basename # <<>>
    /\ basename[1] \in Range(LowerAlpha)
    /\ basename[Len(basename)] # "-"
    /\ \A i \in 1..Len(basename) :
          /\ basename[i] \in Range(LowerAlpha) \cup Range(Digits) \cup {"-"}
          /\ (i > 1 /\ basename[i] = "-") => basename[i - 1] # "-"

\* VALIDATION_RULES.minResolution[assetType] || 256
MinResolution(assetType) ==
    IF assetType = Logos THEN 512
    ELSE IF assetType = Icons THEN 128
    ELSE 256

\* the names VALIDATION_RULES.requiredFiles[assetType] matches: one pattern
\* /^logo\.(svg|png)$/ for logos, /^icon\.(svg|png)$/ for icons, no
\* pattern for another asset type
RequiredNames(assetType) ==
    IF assetType = Logos
    THEN {<<"l","o","g","o",".">> \o e : e \in {Svg, Png}}
    ELSE IF assetType = Icons
    THEN {<<"i","c","o","n",".">> \o e : e \in {Svg, Png}}
    ELSE {}

HasRequiredPattern(assetType) == assetType \in {Logos, Icons}

\* addError
AddError(iss, message) == [iss EXCEPT !.errors = Append(@, message)]

\* addWarning
AddWarning(iss, message) == [iss EXCEPT !.warnings = Append(@, message)]

\* validateNaming
ValidateNaming(iss, filename) ==
    LET ext == ToLowerCase(ExtName(filename))
        basename == BaseName(filename, ext)
    IN  IF ext \notin ValidExtensions
        THEN AddWarning(iss, "Unsupported file extension")
        ELSE IF ~NamingPattern(basename)
        THEN AddError(iss, "Invalid filename")
        ELSE iss

\* what getImageMetadata returns when sharp throws
NoMetadata == [width |-> Null, height |-> Null]

\* validateResolution
ValidateResolution(iss, filename, assetType, metadata) ==
    IF ToLowerCase(ExtName(filename)) = <<".">> \o Svg THEN iss
    ELSE IF metadata = NoMetadata
    THEN AddError(iss, "Could not read image metadata")
    ELSE IF Min(metadata.width, metadata.height) < MinResolution(assetType)
    THEN AddWarning(iss, "Low resolution")
    ELSE iss

\* validateRequiredFiles on the listing of the type directory
ValidateRequiredFiles(iss, listing, assetType) ==
    IF ~HasRequiredPattern(assetType) THEN iss
    ELSE IF \E i \in 1..Len(listing) : listing[i] \in RequiredNames(assetType)
    THEN iss
    ELSE AddWarning(iss, "Missing recommended file")

\* ------------------------------------------------------------------------
\* The environment of the validation run
\* ------------------------------------------------------------------------
\* the asset types a brand configures, in the order of Object.keys
ValTypeNames == <<Logos, Images, Icons>>

\* what readdir(typeDir) returns for a directory that is not empty
ValListings ==
    {<< <<"l","o","g","o",".">> \o Svg >>,
     << <<"L","o","g","o",".">> \o Png, <<"n","o","t","e","s">> >>,
     << <<"a","-","3","2",".">> \o Png >>}

\* what sharp reads of a file: nothing, a small image, a large one
ValMetadata ==
    {NoMetadata, [width |-> 64, height |-> 512], [width |-> 600, height |-> 512]}

\* ------------------------------------------------------------------------
\* The validation run as a state machine
\* ------------------------------------------------------------------------
InitValidate ==
    /\ GenStart
    /\ ClientStart
    /\ ConvStart
    /\ RunStart
    /\ WatchStart
    /\ vpc = "loadConfig"
    /\ vBrands = 0
    /\ vbi = 1
    /\ vTypes = 0
    /\ vti = 1
    /\ vFiles = <<>>
    /\ vfi = 1
    /\ issues = NoIssues
    /\ printed = NoIssues
    /\ vThrown = FALSE
    /\ vExit = Null

\* const config = await loadConfig()
ValLoadConfigOk ==
    /\ vpc = "loadConfig"
    /\ vBrands' \in 0..MaxValBrands
    /\ vpc' = "brands"
    /\ UNCHANGED <<vbi, vTypes, vti, vFiles, vfi, issues, printed, vThrown, vExit>>
    /\ UNCHANGED <<genVars, clientVars, convVars, runVars, watchVars>>

\* main rejects: loadConfig throws, or Object.entries(config.brands) or
\* Object.keys(brandConfig) throws on a configuration without them
ValThrows ==
    /\ \/ vpc = "loadConfig"
       \/ vpc = "brands" /\ vbi <= vBrands
    /\ vThrown' = TRUE
    /\ vpc' = "catch"
    /\ UNCHANGED <<vBrands, vbi, vTypes, vti, vFiles, vfi, issues, printed, vExit>>
    /\ UNCHANGED <<genVars, clientVars, convVars, runVars, watchVars>>

\* validateBrandDirectory up to the loop over the configured types
ValidateBrand ==
    /\ vpc = "brands"
    /\ vbi <= vBrands
    /\ \/ /\ issues' = AddError(issues, "Brand directory not found")
          /\ vbi' = vbi + 1
          /\ UNCHANGED <<vpc, vTypes, vti>>
       \/ /\ vTypes' \in 0..MaxValTypes
          /\ vti' = 1
          /\ vpc' = "types"
          /\ UNCHANGED <<vbi, issues>>
    /\ UNCHANGED <<vBrands, vFiles, vfi, printed, vThrown, vExit>>
    /\ UNCHANGED <<genVars, clientVars, convVars, runVars, watchVars>>

\* const files = await fs.readdir(typeDir): it throws, or the directory is
\* empty, or the loop over its files starts
ReadTypeDir ==
    /\ vpc = "types"
    /\ vti <= vTypes
    /\ \/ /\ issues' = AddWarning(issues, "Directory not found")
          /\ vti' = vti + 1
          /\ UNCHANGED <<vpc, vFiles, vfi>>
       \/ /\ issues' = AddWarning(issues, "Empty directory")
          /\ vti' = vti + 1
          /\ UNCHANGED <<vpc, vFiles, vfi>>
       \/ /\ vFiles' \in ValListings
          /\ vfi' = 1
          /\ vpc' = "files"
          /\ UNCHANGED <<vti, issues>>
    /\ UNCHANGED <<vBrands, vbi, vTypes, printed, vThrown, vExit>>
    /\ UNCHANGED <<genVars, clientVars, convVars, runVars, watchVars>>

\* one iteration of the loop over the files: fs.stat throws, which the
\* catch around the loop turns into a warning, or the entry is no file, or
\* it is validated
ValidateFile ==
    /\ vpc = "files"
    /\ vfi <= Len(vFiles)
    /\ \/ /\ issues' = AddWarning(issues, "Directory not found")
          /\ vti' = vti + 1
          /\ vpc' = "types"
          /\ UNCHANGED vfi
       \/ /\ vfi' = vfi + 1
          /\ UNCHANGED <<vpc, vti, issues>>
       \/ /\ \E metadata \in ValMetadata :
                issues' = ValidateResolution(ValidateNaming(issues, vFiles[vfi]),
                              vFiles[vfi], ValTypeNames[vti], metadata)
          /\ vfi' = vfi + 1
          /\ UNCHANGED <<vpc, vti>>
    /\ UNCHANGED <<vBrands, vbi, vTypes, vFiles, printed, vThrown, vExit>>
    /\ UNCHANGED <<genVars, clientVars, convVars, runVars, watchVars>>

\* after the loop over the files: validateRequiredFiles, whose own readdir
\* returns the listing or throws
ValidateRequired ==
    /\ vpc = "files"
    /\ vfi > Len(vFiles)
    /\ \/ issues' = ValidateRequiredFiles(issues, vFiles, ValTypeNames[vti])
       \/ UNCHANGED issues
    /\ vti' = vti + 1
    /\ vpc' = "types"
    /\ UNCHANGED <<vBrands, vbi, vTypes, vFiles, vfi, printed, vThrown, vExit>>
    /\ UNCHANGED <<genVars, clientVars, convVars, runVars, watchVars>>

\* validateBrandDirectory returns
BrandValidated ==
    /\ vpc = "types"
    /\ vti > vTypes
    /\ vbi' = vbi + 1
    /\ vpc' = "brands"
    /\ UNCHANGED <<vBrands, vTypes, vti, vFiles, vfi, issues, printed, vThrown,
                   vExit>>
    /\ UNCHANGED <<genVars, clientVars, convVars, runVars, watchVars>>

\* checkOrphanedDirectories: a warning for every brand directory that the
\* configuration does not name
CheckOrphans ==
    /\ vpc = "brands"
    /\ vbi > vBrands
    /\ \/ issues' = AddWarning(issues, "Orphaned brand directory")
       \/ UNCHANGED issues
    /\ vpc' = "report"
    /\ UNCHANGED <<vBrands, vbi, vTypes, vti, vFiles, vfi, printed, vThrown, vExit>>
    /\ UNCHANGED <<genVars, clientVars, convVars, runVars, watchVars>>

\* variant: any issue makes the run fail
ExitStatusAnyIssue(iss) ==
    IF iss.errors # <<>> \/ iss.warnings # <<>> THEN 1 ELSE 0

\* the status main exits with after it has printed the results
ExitStatusOf(iss) == IF iss.errors # <<>> THEN 1 ELSE 0

\* "Print results": the warnings, then the errors, then process.exit
Report ==
    /\ vpc = "report"
    /\ printed' = issues
    /\ vExit' = ExitStatusOf(issues)
    /\ vpc' = "exited"
    /\ UNCHANGED <<vBrands, vbi, vTypes, vti, vFiles, vfi, issues, vThrown>>
    /\ UNCHANGED <<genVars, clientVars, convVars, runVars, watchVars>>

\* main().catch: console.error(...); process.exit(1)
ValCatch ==
    /\ vpc = "catch"
    /\ vExit' = 1
    /\ vpc' = "exited"
    /\ UNCHANGED <<vBrands, vbi, vTypes, vti, vFiles, vfi, issues, printed, vThrown>>
    /\ UNCHANGED <<genVars, clientVars, convVars, runVars, watchVars>>

NextValidate ==
    \/ ValLoadConfigOk
    \/ ValThrows
    \/ ValidateBrand
    \/ ReadTypeDir
    \/ ValidateFile
    \/ ValidateRequired
    \/ BrandValidated
    \/ CheckOrphans
    \/ Report
    \/ ValCatch

SpecValidate == InitValidate /\ [][NextValidate]_vars

\* ------------------------------------------------------------------------
\* C26
\* ------------------------------------------------------------------------
\* C26: the validation run exits with status 1 exactly when an error was
\* recorded or main rejected, and with status 0 otherwise; nothing of the
\* issues is printed before every brand has been validated, and a run that
\* ends without a rejection has printed all of them.
C26_ExitStatusAndReport ==
    /\ vExit # Null =>
          /\ vExit \in {0, 1}
          /\ vExit = 1 <=> (issues.errors # <<>> \/ vThrown)
          /\ ~vThrown => printed = issues
    /\ printed # NoIssues => (vbi > vBrands /\ vpc = "exited")

\* a run that recorded warnings only has ended with status 0
C26_Witness ==
    /\ vExit = 0
    /\ issues.errors = <<>>
    /\ Len(issues.warnings) >= 2
    /\ printed = issues

\* ------------------------------------------------------------------------
\* C24
\* ------------------------------------------------------------------------
\* the debounced listener of the search box runs filterAndRender
SearchListenerRuns == searchTimer /\ ~searchTimer'

\* C24: whenever filterAndRender is run by the search box with a query
\* that is not empty, the manifest has been loaded, its assets flattened
\* and the index built: fuse.search is never called on a missing index.
C24_SearchOnlyOnBuiltIndex ==
    [][SearchListenerRuns =>
          (Trim(searchInput) = <<>> \/ (loadState = "ok" /\ fuse.built))]_vars

ReachableFiles ==
    {ResolvedFile(allAssets[currentAsset], f, s) :
        f \in Range(modalFormat.options), s \in Range(modalSize.options)}

\* C30: every file record of the asset in the modal can be shown: some
\* choice of the format select and of the size select makes updateModalUrls
\* write the record's path to the outputs.
C30_EveryFileReachable ==
    ModalOpen => \A j \in 1..Len(ShownFiles) : ShownFiles[j] \in ReachableFiles

====
